---- MODULE Spec2Model ----
(***************************************************************************)
(* Ingestion engine of goodyearwelt-reviews: the runs of the entry points  *)
(* src/fetch.py, src/scrape/subreddit.py, src/scrape/extract_links.py,     *)
(* src/scrape/images.py and src/scrape/zappos.py against a sqlite store    *)
(* and their upstream HTTP APIs.                                           *)
(*                                                                         *)
(* A behaviour is a sequence of runs of one pipeline against one database: *)
(*   "fetch"   the legacy schema (submission_facts + submissions),         *)
(*   "scrape"  subreddit -> extract_links -> images,                       *)
(*   "zappos"  catalog search and product fetch.                           *)
(* The tables of the three pipelines are disjoint, so their runs do not    *)
(* interact.                                                               *)
(***************************************************************************)
EXTENDS Integers, Sequences, FiniteSets, TLC

\* ------------------------------------------------------------------ bounds

\* Largest number of submissions the search backend holds.
MaxItems == 3
\* Largest page size the search backend serves.
MaxPageSize == 2
\* Number of runs in one behaviour.
MaxRuns == 2
\* Largest number of tokens of the text of a url after its host.
MaxTokens == 6
\* Largest number of medias an images run finds stored at the start.
MaxBacklog == 2

\* ------------------------------------------------------- program constants

\* src/fetch.py:20, src/scrape/subreddit.py:26
MAX_LIMIT == 100

SUBREDDIT == "goodyearwelt"

\* ------------------------------------------------------------ Python values

\* Optional[...]: None and a present value.
None == [some |-> FALSE]
Some(x) == [some |-> TRUE, val |-> x]

Min(a, b) == IF a <= b THEN a ELSE b

Range(s) == {s[i] : i \in DOMAIN s}

\* ------------------------------------------------------------------- state

VARIABLES
    pipeline,    \* which database/pipeline this behaviour is about
    nItems,      \* N: submissions held by the search backend (static)
    pageSize,    \* P: page size the search backend serves (static)
    store,       \* the database file: what is committed
    txn,         \* the tables as the open connection sees them
    conn,        \* "none" | "open" | "closed": the run's connection
    runs,        \* runs started so far
    entry,       \* entry point of the current run
    args,        \* its command-line arguments
    pc,          \* position of the run inside main()
    status,      \* main's local variable status
    after,       \* paginated_search's cursor
    page,        \* children of the yielded page not yet inserted
    nextAfter,   \* data.after of the yielded page, read when the generator resumes
    requests,    \* history: every search request of the run: its 'after'
                 \*          parameter and what came back; for a zappos search
                 \*          also its parameters, the total the page reported
                 \*          and the results gathered after it
    emitted,     \* history: the responses paginated_search has yielded in the run
    outcome,     \* history: how the run's ingestion ended
    derived,     \* history: what each call of get_oldest_submission in the run
                 \*          returned
    startAfter,  \* history: the cursor ingest passed to paginated_search
    trail,       \* history: commit/rollback/close calls of the run, in order
    stmts,       \* history: the insert statements of the last step
    todo,        \* the items the run's loop has still to process; for a zappos
                 \* search, the results paginated_search has gathered
    searchLoop,  \* zappos.paginated_search's locals page and stop_at
    slept,       \* history: the sleeps of the last dispatch, in seconds
    before,      \* history: the database file as the run found it
    calls,       \* history: the requests of the last step of an images run's
                 \*          loops, in order, each with its answer and what the
                 \*          client method made of it
    dispatched   \* history: the last dispatch of the retail client: the
                 \*          requests made with their answers, and its outcome

vars == <<pipeline, nItems, pageSize, store, txn, conn, runs, entry, args, pc,
          status, after, page, nextAfter, requests, emitted, outcome, derived,
          startAfter, trail, stmts, todo, searchLoop, slept, before, calls,
          dispatched>>

\* -------------------------------------------------------------------- URLs

\* A URL as urlparse sees it: the host's labels (netloc split at ".") and the
\* path split at "/" (without the empty string before the leading slash).
\* A path segment is a name and its extension ("" when it has none); the
\* empty segment, as after a trailing slash, is Seg("", "").
Url(netloc, path) == [netloc |-> netloc, path |-> path]
Seg(stem, ext) == [stem |-> stem, ext |-> ext]

U_img    == Url(<<"i", "imgur", "com">>, <<Seg("XYZ", "jpg")>>)
U_album  == Url(<<"imgur", "com">>, <<Seg("a", ""), Seg("ABC", "")>>)
U_self   == Url(<<"reddit", "com">>,
                <<Seg("r", ""), Seg("goodyearwelt", ""), Seg("comments", "")>>)
U_reddit == Url(<<"i", "redd", "it">>, <<Seg("FOO", "png")>>)

\* str.endswith on one host label: "notimgur".endswith("imgur") is true.
LabelEndsWith(label, suffix) ==
    label = suffix \/ <<label, suffix>> \in {<<"notimgur", "imgur">>}

\* domain.endswith("<name>.<tld>"): the suffix may start inside a label.
DomainEndsWith(netloc, name, tld) ==
    /\ Len(netloc) >= 2
    /\ netloc[Len(netloc)] = tld
    /\ LabelEndsWith(netloc[Len(netloc) - 1], name)

is_media_url(url) ==
    LET domain == url.netloc
        is_imgur == DomainEndsWith(domain, "imgur", "com")
        is_reddit == \/ DomainEndsWith(domain, "redd", "it")
                     \/ DomainEndsWith(domain, "reddituploads", "com")
    IN  is_imgur \/ is_reddit

\* [slug for slug in parsed.path.split("/") if slug]
Slugs(url) == SelectSeq(url.path, LAMBDA g : g /= Seg("", ""))

\* "imgur" in parsed.netloc: the brand anywhere in the host.
is_imgur(url) ==
    \E k \in DOMAIN url.netloc : url.netloc[k] \in {"imgur", "notimgur"}

\* images.sniff_imgur_resource: None when the first segment is not known.
\* (With no segment at all the unpacking raises ValueError: "raise".)
sniff_imgur_resource(url) ==
    LET slugs == Slugs(url)
    IN  IF Len(slugs) = 1 THEN "image"
        ELSE IF slugs = <<>> THEN "raise"
        ELSE IF slugs[1] = Seg("a", "") THEN "album"
        ELSE IF slugs[1] = Seg("gallery", "") THEN "gallery"
        ELSE IF slugs[1] = Seg("image", "") THEN "image"
        ELSE "None"

\* images.is_album
is_album(url) ==
    IF ~is_imgur(url) THEN FALSE
    ELSE sniff_imgur_resource(url) \in {"album", "gallery"}

\* A variant that returns the last segment whole, extension included.
get_id_with_extension(url) ==
    LET end == Slugs(url)[Len(Slugs(url))]
    IN  IF end.ext = "" THEN end.stem ELSE end.stem \o "." \o end.ext

\* images.get_id: the stem of the last non-empty path segment.
get_id(url) == Slugs(url)[Len(Slugs(url))].stem

\* images.make_imgur_url with IMGUR_API_VERSION = 3.
make_imgur_url(resource_type, hash_) ==
    Url(<<"api", "imgur", "com">>,
        <<Seg("3", ""), Seg(resource_type, ""), Seg(hash_, "")>>)

\* A variant that keeps the subdomain.
keep_imgur_subdomain(url) == url

\* A variant that asks for the top-level domain only.
any_com_host(parts) ==
    Len(parts) >= 2 /\ parts[Len(parts)] = "com"

\* The test of images.strip_imgur_subdomain on the labels of the host.
imgur_host(parts) ==
    /\ Len(parts) >= 2
    /\ parts[Len(parts) - 1] = "imgur"
    /\ parts[Len(parts)] = "com"

\* images.strip_imgur_subdomain, on the parsed url
strip_imgur_subdomain(url) ==
    IF imgur_host(url.netloc)
    THEN [url EXCEPT !.netloc = <<"imgur", "com">>]
    ELSE url

\* --------------------------------------------------- the search upstream

Queries == {"q1", "q2"}

\* The submissions the upstream holds are 1..nItems; a larger number is a
\* newer submission.  Creation timestamps are distinct.
CreatedUtc(i) == 1000 + 10 * i

UrlOf(i) ==
    CASE i % 4 = 1 -> U_img
      [] i % 4 = 2 -> U_album
      [] i % 4 = 3 -> U_reddit
      [] OTHER     -> U_self

\* The anchors of a submission's body, as (href, text); None for a link post.
Anchors(i) ==
    CASE i % 4 = 2 -> Some(<<[href |-> U_reddit, text |-> "pic"],
                             [href |-> U_self, text |-> "thread"]>>)
      [] i % 4 = 3 -> Some(<<[href |-> U_album, text |-> "album"]>>)
      [] OTHER     -> None

\* child["data"] of a search listing.
ChildData(i) ==
    [id |-> i, title |-> Some("title"), author_fullname |-> "t2_author",
     url |-> UrlOf(i), created_utc |-> CreatedUtc(i),
     selftext_html |-> Anchors(i), num_comments |-> i, score |-> i + 1]

\* Whether the upstream lists submission i for query q.
Matches(q, i) == q = "q1" \/ i % 2 = 1

RECURSIVE Descending(_, _)
Descending(q, n) ==
    IF n = 0 THEN <<>>
    ELSE IF Matches(q, n) THEN <<n>> \o Descending(q, n - 1)
    ELSE Descending(q, n - 1)

\* The static result list of query q, sorted "new": newest first.
Upstream(q) == Descending(q, nItems)

\* A listing's cursor: the fullname of a submission ("t3_" + id), or None.
Fullname(id) == [some |-> TRUE, kind |-> "t3", id |-> id]

IndexOf(seq, x) == CHOOSE k \in DOMAIN seq : seq[k] = x

\* The search endpoint: the page after the cursor, and the next cursor, which
\* is None on the last page.
SearchBackend(q, cursor) ==
    LET children == Upstream(q)
        known == /\ cursor.some
                 /\ "kind" \in DOMAIN cursor
                 /\ cursor.kind = "t3"
                 /\ cursor.id \in Range(children)
        start_pos == IF known THEN IndexOf(children, cursor.id) ELSE 0
        end_pos == start_pos + pageSize
        submissions == SubSeq(children, start_pos + 1, Min(end_pos, Len(children)))
        resp_after == IF end_pos >= Len(children) THEN None
                      ELSE Fullname(submissions[Len(submissions)])
    IN  IF cursor.some /\ ~known
        THEN [ok |-> FALSE, status |-> 400, children |-> <<>>, after |-> None]
        ELSE [ok |-> TRUE, status |-> 200, children |-> submissions,
              after |-> resp_after]

\* ---------------------------------------------------------------- the store

\* The tables of the store, and the table posts of the tests of
\* insert_or_ignore (tests/scrape/test_common.py).
Tables == {"submission_facts", "submissions", "medias", "albums", "images",
           "searches", "products", "posts"}

EmptyDb == [t \in Tables |-> <<>>]

\* The unique keys of each table: each key is a set of columns.  medias has a
\* generated id and no natural key.
UniqueKeys(table) ==
    CASE table = "submission_facts" -> {{"id"}, {"url"}}
      [] table = "submissions"      -> {{"id"}}
      [] table = "medias"           -> {}
      [] table = "albums"           -> {{"id"}}
      [] table = "images"           -> {{"id"}}
      [] table = "searches"         -> {{"product_id", "search_query"}}
      [] table = "products"         -> {{"id"}}
      [] table = "posts"            -> {}

\* The columns declared not null, among those a payload can leave unset (such
\* a column holds an Optional value).  Those of posts are declared in
\* tests/scrape/test_common.py.
NotNullColumns(table) ==
    CASE table \in {"submission_facts", "submissions"} -> {"title"}
      [] table = "posts" -> {"author", "content"}
      [] OTHER -> {}

\* Whether two rows agree on every column of a key.
SameKey(key, r1, r2) == \A c \in key : r1[c] = r2[c]

\* Whether inserting row would violate a unique or not-null constraint.
Conflicts(rows, table, row) ==
    \/ \E key \in UniqueKeys(table) : \E k \in DOMAIN rows : SameKey(key, rows[k], row)
    \/ \E c \in NotNullColumns(table) \cap DOMAIN row : row[c] = None

\* The dataclass Post of the tests: __post_init__ stores user as author.
Post(user, content) == [author |-> user, content |-> content]

\* A row as stored: medias and posts rows carry the id the database generates.
Stored(rows, table, row) ==
    IF table \in {"medias", "posts"}
    THEN [c \in DOMAIN row \cup {"id"} |-> IF c = "id" THEN Len(rows) + 1 ELSE row[c]]
    ELSE row

\* A variant that inserts whatever the key: "insert into" without "or ignore",
\* were the constraint missing.
InsertAlways(db, table, instance) ==
    [db EXCEPT ![table] = Append(@, Stored(@, table, instance))]

\* A variant that overwrites on conflict: "insert or replace".
InsertOrReplace(db, table, instance) ==
    LET kept == SelectSeq(db[table],
                    LAMBDA r : ~\E key \in UniqueKeys(table) : SameKey(key, r, instance))
    IN  [db EXCEPT ![table] = Append(kept, Stored(kept, table, instance))]

\* A variant that ignores a key conflict only: a null is stored.
InsertOrIgnoreKey(db, table, instance) ==
    IF \E key \in UniqueKeys(table) : \E k \in DOMAIN db[table] :
           SameKey(key, db[table][k], instance)
    THEN db
    ELSE [db EXCEPT ![table] = Append(@, Stored(@, table, instance))]

\* "insert or ignore into <table> (<columns>) values (<values>)" of the
\* instance's fields (asdict): nothing happens when a constraint is violated.
insert_or_ignore(db, table, instance) ==
    IF Conflicts(db[table], table, instance) THEN db
    ELSE [db EXCEPT ![table] = Append(@, Stored(@, table, instance))]

\* --------------------------------------------------- extraction and mapping

\* fetch.Submission.from_json: the dataclass's fields, read from the child.
Submission_from_json(data) ==
    [id |-> data.id, subreddit |-> SUBREDDIT, title |-> data.title,
     author_fullname |-> data.author_fullname, url |-> data.url,
     created_utc |-> data.created_utc, selftext_html |-> data.selftext_html,
     num_comments |-> data.num_comments, score |-> data.score]

\* The two rows fetch.insert_submission writes for a submission.
FactsRow(submission, query) ==
    [id |-> submission.id, title |-> submission.title,
     author_fullname |-> submission.author_fullname, url |-> submission.url,
     created_utc |-> submission.created_utc, search_query |-> query]

DimensionRow(submission) ==
    [id |-> submission.id, selftext_html |-> submission.selftext_html,
     comments |-> submission.num_comments, score |-> submission.score]

\* fetch.insert_submission: two insert-or-ignore statements.
insert_submission(db, submission, query) ==
    insert_or_ignore(
        insert_or_ignore(db, "submission_facts", FactsRow(submission, query)),
        "submissions", DimensionRow(submission))

\* from_json(models.Submission, **data) with search_query and subreddit added;
\* __post_init__ stores num_comments as comments.
ScrapeSubmission(data, subreddit, query) ==
    [id |-> data.id, title |-> data.title,
     author_fullname |-> data.author_fullname, subreddit |-> subreddit,
     created_utc |-> data.created_utc, selftext_html |-> data.selftext_html,
     comments |-> data.num_comments, score |-> data.score,
     search_query |-> query]

\* models.Media
Media(submission_id, url, is_direct, txt) ==
    [submission_id |-> submission_id, url |-> url, is_direct |-> is_direct,
     txt |-> txt]

\* subreddit.extract_submissions, for one child: the submission and, when its
\* url is a media url, a direct media without text.
extract_submissions(child, subreddit, query) ==
    LET data == ChildData(child)
        submission == ScrapeSubmission(data, subreddit, query)
        media == IF is_media_url(data.url)
                 THEN Some(Media(submission.id, data.url, TRUE, None))
                 ELSE None
    IN  [submission |-> submission, media |-> media]

\* ------------------------------------------------------------- resume point

\* The rows of query, in "order by created_utc asc" order, first one.
RowsOfQuery(rows, query) == SelectSeq(rows, LAMBDA r : r.search_query = query)

\* A variant that orders descending: the newest row instead of the oldest.
get_newest_submission(db, query) ==
    LET matching == RowsOfQuery(db["submission_facts"], query)
    IN  IF matching = <<>> THEN None
        ELSE Some((CHOOSE r \in Range(matching) :
                      \A o \in Range(matching) : r.created_utc >= o.created_utc).id)

\* fetch.get_oldest_submission: select id from submission_facts where
\* search_query = ? order by created_utc asc limit 1.
get_oldest_submission(db, query) ==
    LET matching == RowsOfQuery(db["submission_facts"], query)
    IN  IF matching = <<>> THEN None
        ELSE Some((CHOOSE r \in Range(matching) :
                      \A o \in Range(matching) : r.created_utc <= o.created_utc).id)

\* A variant that passes the bare id as the cursor.
BareCursor(submission_id) == Some(submission_id)

\* fetch.ingest: after = f"t3_{submission_id}".
ResumeCursor(submission_id) == Fullname(submission_id)

\* ------------------------------------------------------- the image upstream

\* What comes back from requests.request: a response (its status and the two
\* rate-limit headers the image host sends, each possibly absent), or an
\* exception raised instead (exc).
Response(code, user, client) ==
    [exc |-> "none", status |-> code, user |-> user, client |-> client]
Raised(exc) == [exc |-> exc, status |-> 0, user |-> None, client |-> None]

\* A variant that takes a client error for a success.
OkBelow500(response) == response.status < 500

\* requests.Response.ok
Ok(response) == response.status < 400

Credits == {None, Some(0), Some(3), Some(4)}

\* The answers to a JSON request to the image host's API: a 2xx with either
\* header at any of the credits, a failure with or without exhausted user
\* credits, or an exception of requests.
JsonExchanges ==
    {Response(200, u, c) : u \in Credits, c \in Credits}
        \cup {Response(st, u, None) :
                st \in {400, 404, 429, 401, 403}, u \in {None, Some(0)}}
        \cup {Raised("Timeout"), Raised("ConnectionError")}

\* The answers to a request for an image's bytes; no header of theirs is read.
ImageExchanges ==
    {Response(st, None, None) : st \in {200, 404, 429, 401, 403}}
        \cup {Raised("Timeout")}

\* The place of the answer to a request that is not made.
NotAsked == Raised("not asked")

\* The ids of the images the image host lists for an album.
AlbumImageIds(hash_) == IF hash_ = "ABC" THEN <<"ABC_1", "ABC_2">> ELSE <<>>

\* data of the API's image payload.
ImagePayload(id) ==
    [id |-> id, title |-> Some("image"), description |-> None,
     datetime |-> Some(1500), type |-> Some("image/jpeg"),
     link |-> Url(<<"i", "imgur", "com">>, <<Seg(id, "jpg")>>),
     views |-> Some(7)]

\* data of the API's album payload.
AlbumPayload(hash_) ==
    [id |-> hash_, title |-> Some("album"), description |-> None,
     datetime |-> Some(1400),
     link |-> Url(<<"imgur", "com">>, <<Seg("a", ""), Seg(hash_, "")>>),
     views |-> Some(9),
     images |-> [k \in DOMAIN AlbumImageIds(hash_) |->
                    ImagePayload(AlbumImageIds(hash_)[k])]]

\* The body of a 2xx answer to a request to the API.
ApiBody(api_url) ==
    IF api_url.path[2] = Seg("album", "")
    THEN AlbumPayload(api_url.path[3].stem)
    ELSE ImagePayload(api_url.path[3].stem)

\* ------------------------------------------------------- the image clients

\* src/scrape/images.py:63
min_stopping_credits == 3

\* Client.fail_on_statuses
fail_on_statuses == {401, 403}

\* The outcome of a call: a returned value, or a raised exception.
Return(val) == [exc |-> "none", val |-> val]
Throw(exc) == [exc |-> exc, val |-> None]

\* A variant that reads the user's credits only.
near_rate_limit_of_user(response) ==
    response.user.some /\ response.user.val <= 3

\* ImgurClient.near_rate_limit
near_rate_limit(response) ==
    LET hit_threshold(credits) ==
            IF ~credits.some THEN FALSE
            ELSE credits.val <= min_stopping_credits
    IN  hit_threshold(response.user) \/ hit_threshold(response.client)

\* A variant in which ImgurClient does not override Client.on_failure.
on_failure_of_Client(client, response) ==
    IF response.status \in {401, 403} THEN "HTTPError" ELSE "none"

\* A variant in which every failure is raised with raise_for_status.
on_failure_raises_all(client, response) ==
    IF client = "imgur" /\ response.status = 429 THEN "RateLimitError"
    ELSE "HTTPError"

\* A variant in which no status is fatal.
on_failure_logs_only(client, response) ==
    IF client = "imgur" /\ response.status = 429 THEN "RateLimitError" ELSE "none"

\* Client.on_failure: raise_for_status on 401/403, else an error is logged.
\* ImgurClient.on_failure raises RateLimitError on 429 first.
\* The exception raised, "none" when it returns.
on_failure(client, response) ==
    IF client = "imgur" /\ response.status = 429 THEN "RateLimitError"
    ELSE IF response.status \in fail_on_statuses THEN "HTTPError"
    ELSE "none"

\* models.Image from get_image's updated_data; __post_init__ stores datetime,
\* type and link as uploaded_utc, mimetype and url.
Image(data) ==
    [id |-> data.id, media_id |-> data.media_id, album_id |-> data.album_id,
     title |-> data.title, description |-> data.description,
     uploaded_utc |-> data.datetime, mimetype |-> data.type, url |-> data.link,
     views |-> data.views, img |-> data.img]

\* dict.get for the fields of Image a metadata dict may lack.
WithDefaults(metadata) ==
    [f \in {"id", "media_id", "album_id", "title", "description", "datetime",
            "views"} |->
        IF f \in DOMAIN metadata THEN metadata[f] ELSE None]

\* Client.get_image, given what the request brings back.  ImgurClient.get_image
\* requests strip_imgur_subdomain(url) instead of url.
get_image(client, url, metadata, x) ==
    LET target == IF client = "imgur" THEN strip_imgur_subdomain(url) ELSE url
        failure == on_failure(client, x)
        updated_data ==
            [f \in DOMAIN WithDefaults(metadata) \cup {"type", "img", "link"} |->
                CASE f = "type" -> IF Ok(x) THEN Some("image/jpeg") ELSE None
                  [] f = "img"  -> IF Ok(x) THEN Some("bytes") ELSE None
                  [] f = "link" -> target
                  [] OTHER      -> WithDefaults(metadata)[f]]
    IN  IF x.exc /= "none" THEN Throw(x.exc)
        ELSE IF ~Ok(x) /\ failure /= "none" THEN Throw(failure)
        ELSE Return(Image(updated_data))

\* ImgurClient.get_json, given what the request brings back: the parsed body,
\* or None after a failure on_failure only logs.
get_json(url, x) ==
    IF x.exc /= "none" THEN Throw(x.exc)
    ELSE IF ~Ok(x)
         THEN IF on_failure("imgur", x) /= "none"
              THEN Throw(on_failure("imgur", x))
              ELSE Return(None)
    ELSE IF near_rate_limit(x) THEN Throw("RateLimitError")
    ELSE Return(Some(ApiBody(url)))

\* models.Album from the album payload; __post_init__ stores datetime and link
\* as uploaded_utc and url.
Album(data, media_id) ==
    [id |-> data.id, media_id |-> media_id, title |-> data.title,
     description |-> data.description, uploaded_utc |-> data.datetime,
     url |-> data.link, views |-> data.views]

\* The metadata get_album passes to get_image for a listed image.
AlbumImageMetadata(img, album_id, media_id) ==
    [f \in (DOMAIN img \ {"type", "link"}) \cup {"album_id", "media_id"} |->
        CASE f = "album_id" -> Some(album_id)
          [] f = "media_id" -> media_id
          [] OTHER          -> img[f]]

RECURSIVE FetchImages(_, _, _, _)
\* The loop of get_album over data["images"]: the images fetched, or the first
\* exception.  xs are the answers to the requests, in order.
FetchImages(imgs, album_id, media_id, xs) ==
    IF imgs = <<>> THEN Return(<<>>)
    ELSE LET image == get_image("imgur", imgs[1].link,
                                AlbumImageMetadata(imgs[1], album_id, media_id),
                                xs[1])
             rest == FetchImages(Tail(imgs), album_id, media_id, Tail(xs))
         IN  IF image.exc /= "none" THEN image
             ELSE IF rest.exc /= "none" THEN rest
             ELSE Return(<<image.val>> \o rest.val)

\* ImgurClient.get_album: None when get_json returns None; else the album and
\* its images.  x is the answer to the JSON request, xs those to the image
\* requests.
get_album(url, media_id, x, xs) ==
    LET wrapped == get_json(url, x)
    IN  IF wrapped.exc /= "none" THEN wrapped
        ELSE IF wrapped.val = None THEN Return(None)
        ELSE LET data == wrapped.val.val
                 album == Album(data, media_id)
                 images == FetchImages(data.images, album.id, media_id, xs)
             IN  IF images.exc /= "none" THEN images
                 ELSE Return(Some([album |-> album, images |-> images.val]))

\* A variant in which ImgurClient does not override Client.headers.
headers_of_Client(client) == None

\* Client.headers is None; ImgurClient.headers is the Authorization header
\* with the client id.
headers(client) ==
    IF client = "imgur" THEN Some("Client-ID <client_id>") ELSE None

\* The request Client.get_image makes, with its answer x and what get_image
\* makes of it: headers=self.headers, to the url ImgurClient.get_image has
\* rewritten.
ImageRequest(client, url, metadata, x) ==
    [fn |-> "get_image", client |-> client, given |-> url,
     url |-> IF client = "imgur" THEN strip_imgur_subdomain(url) ELSE url,
     Authorization |-> headers(client), Accept |-> None,
     metadata |-> metadata, x |-> x, out |-> get_image(client, url, metadata, x)]

\* The request ImgurClient.get_json makes, with its answer x and what
\* get_json makes of it: headers = {**self.headers, "Accept": ...}.
JsonRequest(url, x) ==
    [fn |-> "get_json", client |-> "imgur", given |-> url, url |-> url,
     Authorization |-> headers("imgur"), Accept |-> Some("application/json"),
     metadata |-> <<>>, x |-> x, out |-> get_json(url, x)]

RECURSIVE ImageRequests(_, _, _, _)
\* The requests of get_album's loop over data["images"], up to the first
\* that raises.
ImageRequests(imgs, album_id, media_id, xs) ==
    IF imgs = <<>> THEN <<>>
    ELSE LET request == ImageRequest("imgur", imgs[1].link,
                                     AlbumImageMetadata(imgs[1], album_id, media_id),
                                     xs[1])
         IN  IF request.out.exc /= "none" THEN <<request>>
             ELSE <<request>> \o ImageRequests(Tail(imgs), album_id, media_id,
                                               Tail(xs))

\* The requests of ImgurClient.get_album: that of get_json, then those for
\* the images of the album when there is a body.
AlbumRequests(url, media_id, x, xs) ==
    LET wrapped == JsonRequest(url, x)
    IN  IF wrapped.out.exc /= "none" \/ wrapped.out.val = None THEN <<wrapped>>
        ELSE LET data == wrapped.out.val.val
             IN  <<wrapped>> \o ImageRequests(data.images, data.id, media_id, xs)

\* A variant that returns every media.
get_all_links(db) ==
    [k \in DOMAIN db["medias"] |->
        [media_id |-> db["medias"][k].id, url |-> db["medias"][k].url]]

\* images.get_links: the medias no image row refers to, as (id, url).
get_links(db) ==
    LET resolved == {db["images"][k].media_id : k \in DOMAIN db["images"]}
        backlog == SelectSeq(db["medias"], LAMBDA m : m.id \notin resolved)
    IN  [k \in DOMAIN backlog |-> [media_id |-> backlog[k].id, url |-> backlog[k].url]]

\* ----------------------------------------------------- the retail upstream

\* The search terms a zappos run is given.
Terms == {"boots", "shoes"}

\* The catalog holds the products 1..nItems, whatever the term, and serves
\* pageSize results a page.  productId is a string of digits.
Digits(n) == [digits |-> n]
int(string) == string.digits

BrandOf(i) == IF i % 3 = 2 THEN "Acme Kids" ELSE "Alden"

\* One entry of data["results"] of a catalog search.
SearchResult(i) ==
    [brandName |-> BrandOf(i), productId |-> Digits(i), productName |-> "Indy",
     categoryFacet |-> "Boots"]

\* The body of a 2xx answer to /Search for a page.  The count it reports is
\* that of the moment: a product more is counted once the first page is out.
CatalogPage(term, page_no) ==
    LET first == (page_no - 1) * pageSize + 1
        last == Min(page_no * pageSize, nItems)
    IN  [totalResultCount |-> Digits(IF page_no = 1 THEN nItems ELSE nItems + 1),
         results |-> [k \in 1..(IF last >= first THEN last - first + 1 ELSE 0) |->
                        SearchResult(first + k - 1)]]

\* A child of a description's list item: a tag with href or text, whether the
\* text names the brand as a word, and the text without its legal signs.
DescriptionOf(i) ==
    IF i % 2 = 0 THEN None
    ELSE Some(<<[href |-> TRUE, brand |-> TRUE, text |-> "Size Chart"],
                [href |-> FALSE, brand |-> FALSE, text |-> "Leather upper"],
                [href |-> FALSE, brand |-> TRUE, text |-> "Alden is great"]>>)

\* The first element of data["product"] of a product fetch.
ProductPayload(i) ==
    [brandName |-> BrandOf(i), productName |-> "Indy",
     defaultProductUrl |-> Url(<<"zappos", "com">>, <<Seg("p", ""), Seg("indy", "")>>),
     description |-> DescriptionOf(i)]

\* What comes back from the retail API: a response with its status and the
\* remaining-calls headers of the long and the short window (possibly absent)
\* and the seconds from now until the window's reset (negative when the reset
\* timestamp has passed, as for an absent reset header, read as 0 ms), or an
\* exception.
ZapposResponse(code, long, short) ==
    [exc |-> "none", status |-> code, long |-> long, short |-> short,
     reset_long |-> 60, reset_short |-> 5]

\* The same response with the reset timestamp of a window in the past.
ResetPassed(response, window) ==
    IF window = "Long" THEN [response EXCEPT !.reset_long = -1]
    ELSE [response EXCEPT !.reset_short = -1]

Remaining == {None, Some(1), Some(2)}

ZapposExchanges ==
    {ZapposResponse(200, l, sh) : l \in Remaining, sh \in Remaining}
        \cup {ResetPassed(ZapposResponse(200, Some(1), sh), "Long") :
                sh \in {None, Some(1)}}
        \cup {ResetPassed(ZapposResponse(200, None, Some(1)), "Short")}
        \cup {ZapposResponse(st, None, None) : st \in {429, 404, 500, 504}}
        \cup {[exc |-> "ConnectionError", status |-> 0, long |-> None,
               short |-> None, reset_long |-> 0, reset_short |-> 0]}

\* ------------------------------------------------------- the retail client

\* src/scrape/zappos.py:19
MAX_SEARCH_LIMIT == 500

\* src/scrape/zappos.py:83
max_retries == 1

\* src/scrape/zappos.py:84
retry_delay_seconds == 120

\* A variant that looks at the short window first.
reset_time_short_first(response) ==
    IF response.short.some /\ response.short.val <= 1 THEN response.reset_short
    ELSE IF response.long.some /\ response.long.val <= 1 THEN response.reset_long
    ELSE 0

\* zappos.reset_time: the seconds to wait for the reset of a window with at
\* most one call left, the long window first; 0 when neither is low.
reset_time(response) ==
    LET le_threshold(remaining) ==
            IF ~remaining.some THEN FALSE ELSE remaining.val <= 1
        reset_long == le_threshold(response.long)
        reset_short == le_threshold(response.short)
    IN  IF ~reset_long /\ ~reset_short THEN 0
        ELSE IF reset_long THEN response.reset_long
        ELSE response.reset_short

\* A variant that never retries.
AttemptsOnce(xs, left) == <<xs[1]>>

RECURSIVE Attempts(_, _)
\* The loop of dispatch: the requests made, given the answers xs in order, up
\* to max_retries + 1 of them, ending with the first that is not a 429.
Attempts(xs, left) ==
    IF left = 0 \/ xs = <<>> THEN <<>>
    ELSE IF xs[1].exc /= "none" \/ xs[1].status /= 429 THEN <<xs[1]>>
    ELSE <<xs[1]>> \o Attempts(Tail(xs), left - 1)

\* A variant without raise_for_status.
dispatch_without_raise(xs) ==
    [made |-> <<xs[1]>>, exc |-> xs[1].exc, response |-> Some(xs[1]),
     sleeps |-> <<>>]

\* ZapposClient.dispatch, given the answers to its requests: the response, or
\* the exception of requests.request or of raise_for_status ("HTTPError", with
\* the response).
dispatch(xs) ==
    LET made == Attempts(xs, max_retries + 1)
        response == made[Len(made)]
        retries == SelectSeq(made, LAMBDA x : x.exc = "none" /\ x.status = 429)
        delays == [k \in DOMAIN retries |-> retry_delay_seconds]
        wait_time == reset_time(response)
    IN  IF response.exc /= "none"
        THEN [made |-> made, exc |-> response.exc, response |-> None,
              sleeps |-> delays]
        ELSE IF response.status >= 400
        THEN [made |-> made, exc |-> "HTTPError", response |-> Some(response),
              sleeps |-> delays]
        ELSE [made |-> made, exc |-> "none", response |-> Some(response),
              sleeps |-> IF wait_time > 0 THEN Append(delays, wait_time) ELSE delays]

\* models.ProductSearchResult: __post_init__ renames the fields and makes
\* product_id an int.
ProductSearchResult(result, term) ==
    [brand |-> result.brandName, product_id |-> int(result.productId),
     product_name |-> result.productName, category |-> result.categoryFacet,
     search_query |-> term]

\* zappos.extract_description: the text of the first child of a list item
\* that is no link and names the brand; None when there is none.
extract_description(children) ==
    LET texts == SelectSeq(children, LAMBDA c : ~c.href /\ c.brand)
    IN  IF texts = <<>> THEN None ELSE Some(texts[1].text)

\* ZapposClient.product_description, from the payload: models.Product with
\* the description reduced to a sentence.
Product(product_raw, product_id) ==
    [id |-> product_id, brand |-> product_raw.brandName,
     name |-> product_raw.productName,
     default_url |-> product_raw.defaultProductUrl,
     description |-> IF product_raw.description.some
                     THEN extract_description(product_raw.description.val)
                     ELSE None]

\* A variant that passes over a missing product only.
SkipNotFound == {404}

\* src/scrape/zappos.py:26
SKIP_PRODUCT_STATUSES == {404, 504}

\* lower(brand) not like '%kids%' and not like '%boots' and not like '%shoes'
BrandKept(brand) == brand \notin {"Acme Kids", "Acme Boots", "Acme Shoes"}

\* zappos.main, the select of the fetch mode: one searches row per product_id
\* among the brands kept, for the products not yet in products.
ProductsToFetch(db) ==
    LET fetched == {db["products"][k].id : k \in DOMAIN db["products"]}
        kept == SelectSeq(db["searches"], LAMBDA r : BrandKept(r.brand))
        firsts == {k \in DOMAIN kept :
                     \A j \in 1..(k - 1) : kept[j].product_id /= kept[k].product_id}
        wanted == {k \in firsts : kept[k].product_id \notin fetched}
    IN  SelectSeq([k \in DOMAIN kept |-> [row |-> kept[k], wanted |-> k \in wanted]],
                  LAMBDA e : e.wanted)


\* ---------------------------------------------------------- link extraction

\* extract_links.get_submission_contents: (id, selftext_html) of the
\* submissions with a body.
get_submission_contents(db) ==
    LET with_body == SelectSeq(db["submissions"], LAMBDA r : r.selftext_html.some)
    IN  [k \in DOMAIN with_body |->
            [id |-> with_body[k].id, selftext_html |-> with_body[k].selftext_html.val]]

\* extract_links.extract: an indirect media, with the anchor's text, for each
\* anchor whose href is a media url.
extract(submission_id, selftext_html) ==
    LET links == SelectSeq(selftext_html, LAMBDA a : is_media_url(a.href))
    IN  [k \in DOMAIN links |->
            Media(submission_id, links[k].href, FALSE, Some(links[k].text))]

RECURSIVE Chain(_)
\* chain.from_iterable(starmap(extract, records))
Chain(records) ==
    IF records = <<>> THEN <<>>
    ELSE extract(records[1].id, records[1].selftext_html) \o Chain(Tail(records))


\* ------------------------------------------------------------ the runs: main

Pipelines == {"fetch", "scrape", "zappos"}

EntryPoints(p) ==
    CASE p = "fetch"  -> {"fetch"}
      [] p = "scrape" -> {"subreddit", "extract_links", "images"}
      [] p = "zappos" -> {"zappos"}
      [] p = "backlog" -> {"images"}

NoArgs == [query |-> "none", resume |-> FALSE, mode |-> "none"]

\* The command lines of an entry point: -q/--query, -r/--resume; for zappos
\* --search with --query, or --fetch.
ArgsOf(e) ==
    CASE e = "fetch" ->
            {[query |-> q, resume |-> r, mode |-> "none"] : q \in Queries, r \in BOOLEAN}
      [] e = "subreddit" ->
            {[query |-> q, resume |-> FALSE, mode |-> "none"] : q \in Queries}
      [] e = "zappos" ->
            {[query |-> q, resume |-> FALSE, mode |-> "search"] : q \in Terms}
                \cup {[query |-> "", resume |-> FALSE, mode |-> "fetch"]}
      [] OTHER -> {NoArgs}

\* A variant in which images.main has no clause of its own for the throttling
\* signal.
HandlerWithoutTransient(e, exc) ==
    CASE e \in {"fetch", "subreddit", "extract_links"} ->
            IF exc = "sqlite3.Error" THEN "except_sqlite" ELSE "propagate"
      [] e = "images" -> "except_any"
      [] e = "zappos" -> "except_zappos"
      [] OTHER -> "propagate"

\* A variant in which images.main commits whatever was raised.
HandlerAlwaysTransient(e, exc) ==
    CASE e \in {"fetch", "subreddit", "extract_links"} ->
            IF exc = "sqlite3.Error" THEN "except_sqlite" ELSE "propagate"
      [] e = "images" -> "except_transient"
      [] e = "zappos" -> "except_zappos"
      [] OTHER -> "propagate"

\* A variant in which images.main keeps progress for the throttling signal
\* only.
HandlerTimeoutAborts(e, exc) ==
    CASE e \in {"fetch", "subreddit", "extract_links"} ->
            IF exc = "sqlite3.Error" THEN "except_sqlite" ELSE "propagate"
      [] e = "images" ->
            IF exc = "RateLimitError" THEN "except_transient" ELSE "except_any"
      [] e = "zappos" -> "except_zappos"
      [] OTHER -> "propagate"

\* Where control goes when the try block of main raises exc: the except clause
\* that catches it, or "propagate" when none does (the finally clause still
\* runs).  fetch, subreddit and extract_links catch sqlite3.Error only; images
\* catches (RateLimitError, requests.Timeout), then Exception; zappos catches
\* Exception.
Handler(e, exc) ==
    CASE e \in {"fetch", "subreddit", "extract_links"} ->
            IF exc = "sqlite3.Error" THEN "except_sqlite" ELSE "propagate"
      [] e = "images" ->
            IF exc \in {"RateLimitError", "Timeout"} THEN "except_transient"
            ELSE "except_any"
      [] e = "zappos" -> "except_zappos"
      [] OTHER -> "propagate"

\* No dispatch yet.
NoDispatch == [made |-> <<>>, exc |-> "none", response |-> None, sleeps |-> <<>>]

Init ==
    /\ pipeline \in Pipelines
    /\ nItems \in 0..MaxItems
    /\ pageSize \in 1..MaxPageSize
    /\ store = EmptyDb
    /\ txn = EmptyDb
    /\ conn = "none"
    /\ runs = 0
    /\ entry = "none"
    /\ args = NoArgs
    /\ pc = "idle"
    /\ status = 0
    /\ after = None
    /\ page = <<>>
    /\ nextAfter = None
    /\ requests = <<>>
    /\ emitted = <<>>
    /\ outcome = "none"
    /\ derived = <<>>
    /\ startAfter = None
    /\ trail = <<>>
    /\ stmts = <<>>
    /\ todo = <<>>
    /\ searchLoop = [page |-> 1, stop_at |-> None]
    /\ slept = <<>>
    /\ before = EmptyDb
    /\ calls = <<>>
    /\ dispatched = NoDispatch

static == <<pipeline, nItems, pageSize>>
paging == <<after, page, nextAfter, requests, emitted, startAfter, derived>>
work == <<todo, searchLoop, slept>>

\* A step that makes no request: the histories of the last step's requests
\* are empty after it.
NoRequests == calls' = <<>> /\ dispatched' = NoDispatch

\* main, up to the try block: connect, status = 0.
StartRun ==
    /\ pc \in {"idle", "returned", "raised"}
    /\ runs < MaxRuns
    /\ \E e \in EntryPoints(pipeline) : \E a \in ArgsOf(e) :
          /\ entry' = e
          /\ args' = a
    /\ runs' = runs + 1
    /\ conn' = "open"
    /\ txn' = store
    /\ status' = 0
    /\ pc' = "ingest"
    /\ after' = None
    /\ page' = <<>>
    /\ nextAfter' = None
    /\ requests' = <<>>
    /\ emitted' = <<>>
    /\ outcome' = "none"
    /\ derived' = <<>>
    /\ startAfter' = None
    /\ trail' = <<>>
    /\ stmts' = <<>>
    /\ todo' = <<>>
    /\ searchLoop' = [page |-> 1, stop_at |-> None]
    /\ slept' = <<>>
    /\ before' = store
    /\ calls' = <<>>
    /\ dispatched' = NoDispatch
    /\ UNCHANGED <<static, store>>

\* The try block raises exc.
Raise(exc) ==
    /\ outcome' = exc
    /\ pc' = Handler(entry, exc)

\* fetch.ingest, up to the call of paginated_search: the resume cursor.
FetchIngestBegin ==
    /\ pc = "ingest"
    /\ entry = "fetch"
    /\ \/ /\ args.resume
          /\ LET submission_id == get_oldest_submission(txn, args.query)
             IN  after' = IF submission_id.some
                          THEN ResumeCursor(submission_id.val)
                          ELSE None
          /\ derived' = Append(derived, get_oldest_submission(txn, args.query))
          /\ startAfter' = after'
          /\ pc' = "search"
          /\ UNCHANGED outcome
       \/ /\ args.resume
          /\ Raise("sqlite3.Error")
          /\ UNCHANGED <<after, derived, startAfter>>
       \/ /\ ~args.resume
          /\ after' = None
          /\ startAfter' = None
          /\ pc' = "search"
          /\ UNCHANGED <<derived, outcome>>
    /\ stmts' = <<>>
    /\ NoRequests
    /\ UNCHANGED <<static, before, work, store, txn, conn, runs, entry, args, status, page,
                   nextAfter, requests, emitted, trail>>

\* subreddit.ingest, up to the call of paginated_search(after=None).
SubredditIngestBegin ==
    /\ pc = "ingest"
    /\ entry = "subreddit"
    /\ after' = None
    /\ startAfter' = None
    /\ pc' = "search"
    /\ stmts' = <<>>
    /\ NoRequests
    /\ UNCHANGED <<static, before, work, store, txn, conn, runs, entry, args, status, page,
                   nextAfter, requests, emitted, outcome, derived, trail>>

\* A variant that never finds a next cursor.
NoNextCursor(response) == None

\* The cursor paginated_search reads from a page: response.json()["data"]["after"].
NextCursor(response) == response.after

\* A variant that yields every response.
EmitsAlways(response) == TRUE

\* paginated_search yields a response only when it is ok.
Emits(response) == response.ok

\* What the upstream can answer to a search request: the page, or a failure.
SearchResponses(q, cursor) ==
    {SearchBackend(q, cursor),
     [ok |-> FALSE, status |-> 503, children |-> <<>>, after |-> None]}

\* paginated_search: one turn of the loop up to the yield.  A response that is
\* not ok ends the generator; requests.request may also raise.
Search ==
    /\ pc = "search"
    /\ \/ \E response \in SearchResponses(args.query, after) :
             /\ requests' = Append(requests, [after |-> after, ok |-> response.ok,
                                              raised |-> FALSE])
             /\ IF Emits(response)
                THEN /\ emitted' = Append(emitted, [ok |-> response.ok,
                                                    after |-> response.after])
                     /\ page' = response.children
                     /\ nextAfter' = NextCursor(response)
                     /\ pc' = "page"
                     /\ UNCHANGED outcome
                ELSE /\ outcome' = "failed"
                     /\ pc' = "else"
                     /\ UNCHANGED <<emitted, page, nextAfter>>
       \/ /\ requests' = Append(requests, [after |-> after, ok |-> FALSE,
                                           raised |-> TRUE])
          /\ \E exc \in {"Timeout", "ConnectionError"} : Raise(exc)
          /\ UNCHANGED <<emitted, page, nextAfter>>
    /\ stmts' = <<>>
    /\ NoRequests
    /\ UNCHANGED <<static, before, work, store, txn, conn, runs, entry, args, status, after,
                   derived, startAfter, trail>>

\* A variant of subreddit.ingest that inserts the media first.
StatementsMediaFirst(e, child, query) ==
    IF e = "fetch"
    THEN LET submission == Submission_from_json(ChildData(child))
         IN  <<[table |-> "submission_facts", row |-> FactsRow(submission, query)],
               [table |-> "submissions", row |-> DimensionRow(submission)]>>
    ELSE LET x == extract_submissions(child, SUBREDDIT, query)
         IN  (IF x.media.some
              THEN <<[table |-> "medias", row |-> x.media.val]>>
              ELSE <<>>)
             \o <<[table |-> "submissions", row |-> x.submission]>>

\* The statements the loop body of ingest executes for one child.
Statements(e, child, query) ==
    IF e = "fetch"
    THEN LET submission == Submission_from_json(ChildData(child))
         IN  <<[table |-> "submission_facts", row |-> FactsRow(submission, query)],
               [table |-> "submissions", row |-> DimensionRow(submission)]>>
    ELSE LET x == extract_submissions(child, SUBREDDIT, query)
         IN  <<[table |-> "submissions", row |-> x.submission]>>
             \o (IF x.media.some
                 THEN <<[table |-> "medias", row |-> x.media.val]>>
                 ELSE <<>>)

\* A variant that gathers the statements without executing them.
ExecuteLater(db, ss) == db

RECURSIVE Execute(_, _)
\* The statements, executed in order with insert_or_ignore.
Execute(db, ss) ==
    IF ss = <<>> THEN db
    ELSE Execute(insert_or_ignore(db, ss[1].table, ss[1].row), Tail(ss))

\* ingest: the loop body for the next child of the yielded page
\* (fetch: insert_submission; subreddit: insert_or_ignore of the submission,
\* then of its media).  Statement number k may raise sqlite3.Error.
InsertChild ==
    /\ pc = "page"
    /\ page /= <<>>
    /\ LET ss == Statements(entry, Head(page), args.query)
       IN  \/ /\ txn' = Execute(txn, ss)
              /\ stmts' = ss
              /\ page' = Tail(page)
              /\ UNCHANGED <<pc, outcome>>
           \/ \E k \in 1..Len(ss) :
                 /\ txn' = Execute(txn, SubSeq(ss, 1, k - 1))
                 /\ stmts' = SubSeq(ss, 1, k - 1)
                 /\ Raise("sqlite3.Error")
                 /\ UNCHANGED page
    /\ NoRequests
    /\ UNCHANGED <<static, before, work, store, conn, runs, entry, args, status, after,
                   nextAfter, requests, emitted, derived, startAfter, trail>>

\* paginated_search resumes after the yield: after = data.after; the
\* generator ends when it is None.
ResumeSearch ==
    /\ pc = "page"
    /\ page = <<>>
    /\ after' = nextAfter
    /\ IF nextAfter.some
       THEN pc' = "search" /\ UNCHANGED outcome
       ELSE pc' = "else" /\ outcome' = "exhausted"
    /\ stmts' = <<>>
    /\ NoRequests
    /\ UNCHANGED <<static, before, work, store, txn, conn, runs, entry, args, status, page,
                   nextAfter, requests, emitted, derived, startAfter, trail>>

\* Where the loop over todo goes once rest is what is left of it.
AfterLoop(rest) == IF rest = <<>> THEN "else" ELSE "loop"

\* The statements, executed in order; statement number k may raise
\* sqlite3.Error, and the loop stops there.
ExecuteOrFail(ss, rest) ==
    \/ /\ txn' = Execute(txn, ss)
       /\ stmts' = ss
       /\ todo' = rest
       /\ pc' = AfterLoop(rest)
       /\ UNCHANGED outcome
    \/ \E k \in 1..Len(ss) :
          /\ txn' = Execute(txn, SubSeq(ss, 1, k - 1))
          /\ stmts' = SubSeq(ss, 1, k - 1)
          /\ Raise("sqlite3.Error")
          /\ UNCHANGED todo

\* extract_links.main, the try block up to the loop: the medias of the bodies.
ExtractLinksBegin ==
    /\ pc = "ingest"
    /\ entry = "extract_links"
    /\ \/ /\ todo' = Chain(get_submission_contents(txn))
          /\ pc' = AfterLoop(todo')
          /\ UNCHANGED outcome
       \/ /\ Raise("sqlite3.Error")
          /\ UNCHANGED todo
    /\ stmts' = <<>>
    /\ NoRequests
    /\ UNCHANGED <<static, before, store, txn, conn, runs, entry, args, status, paging,
                   trail, searchLoop, slept>>

\* extract_links.main, the loop body: insert_or_ignore(cursor, "medias", media).
InsertMedia ==
    /\ pc = "loop"
    /\ entry = "extract_links"
    /\ ExecuteOrFail(<<[table |-> "medias", row |-> Head(todo)]>>, Tail(todo))
    /\ NoRequests
    /\ UNCHANGED <<static, before, store, conn, runs, entry, args, status, paging, trail,
                   searchLoop, slept>>

\* The backlog with each media marked for ingest_albums or ingest_standalones.
Marked(medias, kind) ==
    LET chosen == SelectSeq(medias, LAMBDA m : is_album(m.url) = (kind = "album"))
    IN  [k \in DOMAIN chosen |->
            [kind |-> kind, media_id |-> chosen[k].media_id, url |-> chosen[k].url]]

\* images.main, the try block up to ingest_albums: the backlog, split into the
\* album medias, processed first, and the standalone medias.  is_album raises
\* ValueError for an image-host url without path segment.
ImagesBegin ==
    /\ pc = "ingest"
    /\ entry = "images"
    /\ \/ LET medias == get_links(txn)
          IN  IF \E k \in DOMAIN medias :
                    is_imgur(medias[k].url) /\ Slugs(medias[k].url) = <<>>
              THEN Raise("ValueError") /\ UNCHANGED todo
              ELSE /\ todo' = Marked(medias, "album") \o Marked(medias, "standalone")
                   /\ pc' = AfterLoop(todo')
                   /\ UNCHANGED outcome
       \/ /\ Raise("sqlite3.Error")
          /\ UNCHANGED todo
    /\ stmts' = <<>>
    /\ NoRequests
    /\ UNCHANGED <<static, before, store, txn, conn, runs, entry, args, status, paging,
                   trail, searchLoop, slept>>

\* A variant that inserts the album and leaves its images out.
AlbumStatementsWithoutImages(ret) ==
    <<[table |-> "albums", row |-> ret.album]>>

\* The statements ingest_albums executes for a fetched album.
AlbumStatements(ret) ==
    <<[table |-> "albums", row |-> ret.album]>>
        \o [k \in DOMAIN ret.images |-> [table |-> "images", row |-> ret.images[k]]]

\* ingest_albums, the loop body for one media: get_album, then the inserts of
\* the album and of its images; a media whose album cannot be had is skipped.
IngestAlbum ==
    /\ pc = "loop"
    /\ entry = "images"
    /\ Head(todo).kind = "album"
    /\ LET media == Head(todo)
           hash_ == get_id(media.url)
           api_url == make_imgur_url("album", hash_)
       IN  \E x \in JsonExchanges :
           \E xs \in [DOMAIN AlbumImageIds(hash_) ->
                        IF get_json(api_url, x).exc = "none"
                           /\ get_json(api_url, x).val /= None
                        THEN ImageExchanges ELSE {NotAsked}] :
              LET ret == get_album(api_url, media.media_id, x, xs)
              IN  /\ calls' = AlbumRequests(api_url, media.media_id, x, xs)
                  /\ IF ret.exc /= "none"
                     THEN Raise(ret.exc) /\ UNCHANGED <<txn, todo>> /\ stmts' = <<>>
                     ELSE IF ret.val = None
                     THEN /\ todo' = Tail(todo)
                          /\ pc' = AfterLoop(Tail(todo))
                          /\ stmts' = <<>>
                          /\ UNCHANGED <<txn, outcome>>
                     ELSE ExecuteOrFail(AlbumStatements(ret.val.val), Tail(todo))
    /\ dispatched' = NoDispatch
    /\ UNCHANGED <<static, before, store, conn, runs, entry, args, status, paging, trail,
                   searchLoop, slept>>

\* dict.update: the fields of data over those of base.
Updated(base, data) ==
    [f \in DOMAIN base \cup DOMAIN data |->
        IF f \in DOMAIN data THEN data[f] ELSE base[f]]

\* ingest_standalones, the loop body for one media: for an image-host url the
\* metadata from the API when it can be had, then the bytes; the insert of the
\* image.  get_id raises ValueError for a url without path segment.
IngestStandalone ==
    /\ pc = "loop"
    /\ entry = "images"
    /\ Head(todo).kind = "standalone"
    /\ LET media == Head(todo)
           url == media.url
       IN  IF Slugs(url) = <<>>
           THEN Raise("ValueError") /\ UNCHANGED <<txn, todo>> /\ stmts' = <<>>
                /\ calls' = <<>>
           ELSE
           LET hash_ == get_id(url)
               metadata == [id |-> hash_, media_id |-> media.media_id,
                            album_id |-> None]
               api_url == make_imgur_url("image", hash_)
           IN  \E x \in IF is_imgur(url) THEN JsonExchanges ELSE {NotAsked} :
               \E y \in IF is_imgur(url) /\ get_json(api_url, x).exc /= "none"
                         THEN {NotAsked} ELSE ImageExchanges :
                  LET img == IF is_imgur(url)
                             THEN get_json(api_url, x)
                             ELSE Return(None)
                      known == IF img.exc = "none" /\ img.val /= None
                               THEN Updated(metadata, img.val.val)
                               ELSE metadata
                      image == IF img.exc /= "none" THEN img
                               ELSE IF is_imgur(url)
                               THEN get_image("imgur", url, known, y)
                               ELSE get_image("generic", url, known, y)
                      asked == IF is_imgur(url)
                               THEN <<JsonRequest(api_url, x)>>
                               ELSE <<>>
                      fetched == IF img.exc /= "none" THEN <<>>
                                 ELSE IF is_imgur(url)
                                 THEN <<ImageRequest("imgur", url, known, y)>>
                                 ELSE <<ImageRequest("generic", url, known, y)>>
                  IN  /\ calls' = asked \o fetched
                      /\ IF image.exc /= "none"
                         THEN Raise(image.exc) /\ UNCHANGED <<txn, todo>>
                              /\ stmts' = <<>>
                         ELSE ExecuteOrFail(<<[table |-> "images", row |-> image.val]>>,
                                            Tail(todo))
    /\ dispatched' = NoDispatch
    /\ UNCHANGED <<static, before, store, conn, runs, entry, args, status, paging, trail,
                   searchLoop, slept>>

\* ZapposClient.search: the parameters of the request to /Search.
search(term, page_no, limit) == [term |-> term, page |-> page_no, limit |-> limit]

\* A variant that reads the total from every page.
StopAtOfPage(stop_at, data) == int(data.totalResultCount)

\* paginated_search: stop_at is set from the page when it is still None.
StopAt(stop_at, data) ==
    IF stop_at.some THEN stop_at.val ELSE int(data.totalResultCount)

RECURSIVE AnswersWithin(_)
\* The answers the retail API can give to at most n requests of which each
\* but the last is answered 429.
AnswersWithin(n) ==
    LET throttled == {x \in ZapposExchanges : x.exc = "none" /\ x.status = 429}
    IN  IF n = 1 THEN {<<x>> : x \in ZapposExchanges}
        ELSE {<<x>> : x \in ZapposExchanges \ throttled}
                \cup {<<x>> \o rest : x \in throttled, rest \in AnswersWithin(n - 1)}

\* The answers the retail API can give to the requests of one dispatch.
Answers == AnswersWithin(max_retries + 1)

\* zappos.main, --search: the call of paginated_search.
ZapposSearchBegin ==
    /\ pc = "ingest"
    /\ entry = "zappos"
    /\ args.mode = "search"
    /\ searchLoop' = [page |-> 1, stop_at |-> None]
    /\ todo' = <<>>
    /\ pc' = "zsearch"
    /\ stmts' = <<>>
    /\ NoRequests
    /\ UNCHANGED <<static, before, store, txn, conn, runs, entry, args, status, paging,
                   outcome, trail, slept>>

\* zappos.paginated_search: one turn of the loop.  stop_at is set from the
\* first page; the loop ends when the results gathered reach it.
ZapposSearchPage ==
    /\ pc = "zsearch"
    /\ \E xs \in Answers :
          LET r == dispatch(xs)
              params == search(args.query, searchLoop.page, MAX_SEARCH_LIMIT)
              data == CatalogPage(params.term, params.page)
              stop_at == StopAt(searchLoop.stop_at, data)
              results == todo \o [k \in DOMAIN data.results |->
                                    ProductSearchResult(data.results[k], args.query)]
          IN  /\ slept' = r.sleeps
              /\ dispatched' = r
              /\ IF r.exc /= "none"
                 THEN /\ Raise(r.exc)
                      /\ requests' = Append(requests,
                            [after |-> None, ok |-> FALSE, raised |-> TRUE,
                             params |-> params, total |-> None,
                             gathered |-> Len(todo)])
                      /\ UNCHANGED <<todo, searchLoop>>
                 ELSE /\ requests' = Append(requests,
                            [after |-> None, ok |-> TRUE, raised |-> FALSE,
                             params |-> params,
                             total |-> Some(int(data.totalResultCount)),
                             gathered |-> Len(results)])
                      /\ todo' = results
                      /\ searchLoop' = [page |-> searchLoop.page + 1,
                                        stop_at |-> Some(stop_at)]
                      /\ pc' = IF Len(results) < stop_at THEN "zsearch"
                               ELSE AfterLoop(results)
                      /\ UNCHANGED outcome
    /\ stmts' = <<>>
    /\ calls' = <<>>
    /\ UNCHANGED <<static, before, store, txn, conn, runs, entry, args, status, after,
                   page, nextAfter, emitted, startAfter, derived, trail>>

\* zappos.main, --search, the loop body: insert_or_ignore(cursor, "searches",
\* result).
InsertSearchResult ==
    /\ pc = "loop"
    /\ entry = "zappos"
    /\ args.mode = "search"
    /\ ExecuteOrFail(<<[table |-> "searches", row |-> Head(todo)]>>, Tail(todo))
    /\ NoRequests
    /\ UNCHANGED <<static, before, store, conn, runs, entry, args, status, paging, trail,
                   searchLoop, slept>>

\* zappos.main, --fetch, up to the loop: the records to fetch.
ZapposFetchBegin ==
    /\ pc = "ingest"
    /\ entry = "zappos"
    /\ args.mode = "fetch"
    /\ \/ /\ todo' = LET found == ProductsToFetch(txn)
                     IN  [k \in DOMAIN found |-> found[k].row]
          /\ pc' = AfterLoop(todo')
          /\ UNCHANGED outcome
       \/ /\ Raise("sqlite3.Error")
          /\ UNCHANGED todo
    /\ stmts' = <<>>
    /\ NoRequests
    /\ UNCHANGED <<static, before, store, txn, conn, runs, entry, args, status, paging,
                   trail, searchLoop, slept>>

\* get_products and the loop body of zappos.main, --fetch, for one record:
\* product_description, then insert_or_ignore(cursor, "products", product).
\* A RequestException whose response has a status to skip passes the record
\* over; one without response fails at e.response.status_code.
FetchProduct ==
    /\ pc = "loop"
    /\ entry = "zappos"
    /\ args.mode = "fetch"
    /\ LET record == Head(todo)
       IN  \E xs \in Answers :
              LET r == dispatch(xs)
              IN  /\ slept' = r.sleeps
                  /\ dispatched' = r
                  /\ IF r.exc = "none"
                     THEN ExecuteOrFail(
                              <<[table |-> "products",
                                 row |-> Product(ProductPayload(record.product_id),
                                                 record.product_id)]>>,
                              Tail(todo))
                     ELSE IF ~r.response.some
                     THEN Raise("AttributeError") /\ UNCHANGED <<txn, todo>>
                          /\ stmts' = <<>>
                     ELSE IF r.response.val.status \in SKIP_PRODUCT_STATUSES
                     THEN /\ todo' = Tail(todo)
                          /\ pc' = AfterLoop(Tail(todo))
                          /\ stmts' = <<>>
                          /\ UNCHANGED <<txn, outcome>>
                     ELSE Raise(r.exc) /\ UNCHANGED <<txn, todo>> /\ stmts' = <<>>
    /\ calls' = <<>>
    /\ UNCHANGED <<static, before, store, conn, runs, entry, args, status, paging, trail,
                   searchLoop>>


\* A variant in which the except clause leaves status alone.
StatusKept(clause) == 0

\* The status an except clause of main assigns.
ExceptStatus(clause) == 1

\* except sqlite3.Error: conn.rollback(); status = 1.
ExceptSqlite ==
    /\ pc = "except_sqlite"
    /\ txn' = store
    /\ status' = ExceptStatus("except_sqlite")
    /\ trail' = Append(trail, "rollback")
    /\ pc' = "finally"
    /\ stmts' = <<>>
    /\ NoRequests
    /\ UNCHANGED <<static, before, work, store, conn, runs, entry, args, paging, outcome>>

\* images.main, except (RateLimitError, requests.Timeout): conn.commit();
\* status = 1.
ExceptTransient ==
    /\ pc = "except_transient"
    /\ store' = txn
    /\ status' = ExceptStatus("except_transient")
    /\ trail' = Append(trail, "commit")
    /\ pc' = "finally"
    /\ stmts' = <<>>
    /\ NoRequests
    /\ UNCHANGED <<static, before, work, txn, conn, runs, entry, args, paging, outcome>>

\* images.main, except Exception: conn.rollback(); status = 1.
ExceptAny ==
    /\ pc = "except_any"
    /\ txn' = store
    /\ status' = ExceptStatus("except_any")
    /\ trail' = Append(trail, "rollback")
    /\ pc' = "finally"
    /\ stmts' = <<>>
    /\ NoRequests
    /\ UNCHANGED <<static, before, work, store, conn, runs, entry, args, paging, outcome>>

\* A variant that rolls back whatever the mode.
ExceptZapposRollsBack ==
    /\ pc = "except_zappos"
    /\ status' = ExceptStatus("except_zappos")
    /\ txn' = store
    /\ trail' = Append(trail, "rollback")
    /\ pc' = "finally"
    /\ stmts' = <<>>
    /\ NoRequests
    /\ UNCHANGED <<static, before, work, store, conn, runs, entry, args, paging,
                   outcome>>

\* zappos.main, except Exception: status = 1; conn.rollback() unless --fetch
\* was given, conn.commit() when it was.
ExceptZappos ==
    /\ pc = "except_zappos"
    /\ status' = ExceptStatus("except_zappos")
    /\ IF args.mode /= "fetch"
       THEN /\ txn' = store
            /\ trail' = Append(trail, "rollback")
            /\ UNCHANGED store
       ELSE /\ store' = txn
            /\ trail' = Append(trail, "commit")
            /\ UNCHANGED txn
    /\ pc' = "finally"
    /\ stmts' = <<>>
    /\ NoRequests
    /\ UNCHANGED <<static, before, work, conn, runs, entry, args, paging, outcome>>

\* else: conn.commit().
Else ==
    /\ pc = "else"
    /\ store' = txn
    /\ trail' = Append(trail, "commit")
    /\ pc' = "finally"
    /\ stmts' = <<>>
    /\ NoRequests
    /\ UNCHANGED <<static, before, work, txn, conn, runs, entry, args, status, paging, outcome>>

\* finally: conn.close(); then main returns status, or the exception no
\* clause caught leaves main.  What was not committed is lost with the
\* connection.
Finally ==
    /\ pc \in {"finally", "propagate"}
    /\ conn' = "closed"
    /\ txn' = store
    /\ trail' = Append(trail, "close")
    /\ pc' = IF pc = "finally" THEN "returned" ELSE "raised"
    /\ stmts' = <<>>
    /\ NoRequests
    /\ UNCHANGED <<static, before, work, store, runs, entry, args, status, paging, outcome>>

Next ==
    \/ StartRun
    \/ FetchIngestBegin
    \/ SubredditIngestBegin
    \/ Search
    \/ InsertChild
    \/ ResumeSearch
    \/ ExtractLinksBegin
    \/ InsertMedia
    \/ ImagesBegin
    \/ IngestAlbum
    \/ IngestStandalone
    \/ ZapposSearchBegin
    \/ ZapposSearchPage
    \/ InsertSearchResult
    \/ ZapposFetchBegin
    \/ FetchProduct
    \/ ExceptZappos
    \/ ExceptTransient
    \/ ExceptAny
    \/ ExceptSqlite
    \/ Else
    \/ Finally

Spec == Init /\ [][Next]_vars

\* ------------------------------------------- single calls against a store

\* A second specification: one call of a function of the program against a
\* store that earlier runs have filled.

\* The sequences over a set, of a length up to n.
SeqsUpTo(S, n) == UNION {[1..k -> S] : k \in 0..n}

\* The medias tables runs can leave behind: rows with the ids the database
\* generated, in order.
MediasTables ==
    {[k \in DOMAIN urls |->
        Stored(SubSeq(urls, 1, k - 1), "medias", Media(1, urls[k], TRUE, None))] :
     urls \in SeqsUpTo({U_img, U_album}, MaxItems)}

\* An images row of a media as get_image makes it from the id and the media.
ImageOf(id, media_id) ==
    Image([f \in DOMAIN WithDefaults(<<>>) \cup {"type", "img", "link"} |->
             CASE f = "id" -> id
               [] f = "media_id" -> media_id
               [] f = "link" -> U_img
               [] OTHER -> None])

\* The images tables runs can leave behind for a medias table: each row
\* belongs to a media of the table, a media may have several rows.
ImagesTables(medias) ==
    {[k \in DOMAIN owners |-> ImageOf(k, owners[k])] :
     owners \in SeqsUpTo(DOMAIN medias, MaxItems)}

InitCalls ==
    /\ pipeline = "calls"
    /\ nItems = 0
    /\ pageSize = 1
    /\ \E medias \in MediasTables : \E images \in ImagesTables(medias) :
          store = [EmptyDb EXCEPT !["medias"] = medias, !["images"] = images]
    /\ txn = store
    /\ conn = "open"
    /\ runs = 0
    /\ entry = "none"
    /\ args = NoArgs
    /\ pc = "given"
    /\ status = 0
    /\ after = None
    /\ page = <<>>
    /\ nextAfter = None
    /\ requests = <<>>
    /\ emitted = <<>>
    /\ outcome = "none"
    /\ derived = <<>>
    /\ startAfter = None
    /\ trail = <<>>
    /\ stmts = <<>>
    /\ todo = <<>>
    /\ searchLoop = [page |-> 1, stop_at |-> None]
    /\ slept = <<>>
    /\ before = store
    /\ calls = <<>>
    /\ dispatched = NoDispatch

\* medias = get_links(cursor)
CallGetLinks ==
    /\ pc = "given"
    /\ entry' = "get_links"
    /\ todo' = get_links(txn)
    /\ pc' = "called"
    /\ UNCHANGED <<static, store, txn, conn, runs, args, status, paging, outcome,
                   trail, stmts, searchLoop, slept, before, calls, dispatched>>

\* The instances a call of insert_or_ignore is given: a post with or without
\* its fields, or an image, of an id that may be stored already.
Instances ==
    {[table |-> "posts", row |-> Post(user, content)] :
        user \in {None, Some("user")}, content \in {None, Some("content")}}
    \cup {[table |-> "images", row |-> [ImageOf(id, 1) EXCEPT !.views = Some(7)]] :
            id \in 1..(MaxItems + 1)}

\* insert_or_ignore(cursor, table, instance)
CallInsertOrIgnore ==
    /\ pc = "given"
    /\ entry' = "insert_or_ignore"
    /\ \E given \in Instances :
          /\ txn' = insert_or_ignore(txn, given.table, given.row)
          /\ stmts' = <<given>>
    /\ pc' = "called"
    /\ UNCHANGED <<static, store, conn, runs, args, status, paging, outcome, trail,
                   todo, searchLoop, slept, before, calls, dispatched>>

\* The text of a url after "https://imgur.com", as tokens: a slash, a hash
\* sign, or a name (a run of other characters).
NameTokens == {"a", "gallery", "image", "ABC"}
Tokens == {"/", "#"} \cup NameTokens

\* The texts: a path starts with a slash, and two names never follow each
\* other (they would be one name).
UrlTexts ==
    {text \in SeqsUpTo(Tokens, MaxTokens) :
        /\ text /= <<>> => text[1] \in {"/", "#"}
        /\ \A k \in 1..(Len(text) - 1) :
              ~(text[k] \in NameTokens /\ text[k + 1] \in NameTokens)}

\* urlparse(url).path: the text up to the first hash sign.
PathOfText(text) ==
    IF \E k \in DOMAIN text : text[k] = "#"
    THEN SubSeq(text, 1, (CHOOSE k \in DOMAIN text :
                            /\ text[k] = "#"
                            /\ \A j \in 1..(k - 1) : text[j] /= "#") - 1)
    ELSE text

RECURSIVE SplitAtSlash(_, _)
\* str.split("/"): the pieces between the slashes, empty ones included;
\* piece is the piece being read, as tokens.
SplitAtSlash(tokens, piece) ==
    IF tokens = <<>> THEN <<piece>>
    ELSE IF tokens[1] = "/" THEN <<piece>> \o SplitAtSlash(Tail(tokens), <<>>)
    ELSE SplitAtSlash(Tail(tokens), Append(piece, tokens[1]))

RECURSIVE Join(_)
\* "".join(tokens)
Join(tokens) ==
    IF tokens = <<>> THEN "" ELSE tokens[1] \o Join(Tail(tokens))

\* A path segment as pathlib reads it: the stem is the name up to its
\* last dot, unless that dot is the first or the last character.
PathSeg(piece) ==
    LET dots == {k \in DOMAIN piece : piece[k] = "."}
        i == CHOOSE k \in dots : \A j \in dots : j <= k
    IN  IF dots /= {} /\ 1 < i /\ i < Len(piece)
        THEN Seg(Join(SubSeq(piece, 1, i - 1)),
                 Join(SubSeq(piece, i + 1, Len(piece))))
        ELSE Seg(Join(piece), "")

\* urlparse of "https://imgur.com" followed by the text.
urlparse(text) ==
    LET pieces == SplitAtSlash(PathOfText(text), <<>>)
    IN  Url(<<"imgur", "com">>, [k \in DOMAIN pieces |-> PathSeg(pieces[k])])

\* sniff_imgur_resource(url), a function of the url alone: called once,
\* against the empty store.
CallSniff ==
    /\ pc = "given"
    /\ store = EmptyDb
    /\ entry' = "sniff_imgur_resource"
    /\ \E text \in UrlTexts :
          calls' = <<[text |-> text, out |-> sniff_imgur_resource(urlparse(text))]>>
    /\ pc' = "called"
    /\ UNCHANGED <<static, store, txn, conn, runs, args, status, paging, outcome,
                   trail, stmts, todo, searchLoop, slept, before, dispatched>>

\* The texts get_id is called with: the names may carry dots.
IdTexts ==
    {text \in SeqsUpTo({"/", "#", ".", "ABC", "jpg"}, MaxTokens) :
        /\ text /= <<>> => text[1] \in {"/", "#"}
        /\ \A k \in 1..(Len(text) - 1) :
              ~(text[k] \in {"ABC", "jpg"} /\ text[k + 1] \in {"ABC", "jpg"})}

\* get_id(url): with no path segment the unpacking raises ValueError.
\* (The split at "#" finds nothing: urlparse took the fragment already.)
CallGetId ==
    /\ pc = "given"
    /\ store = EmptyDb
    /\ entry' = "get_id"
    /\ \E text \in IdTexts :
          calls' = <<[text |-> text,
                      out |-> IF Slugs(urlparse(text)) = <<>>
                              THEN Throw("ValueError")
                              ELSE Return(get_id(urlparse(text)))]>>
    /\ pc' = "called"
    /\ UNCHANGED <<static, store, txn, conn, runs, args, status, paging, outcome,
                   trail, stmts, todo, searchLoop, slept, before, dispatched>>

\* The place of the first token of the kinds in a text, or one past its end.
FirstOf(tokens, kinds) ==
    IF \E k \in DOMAIN tokens : tokens[k] \in kinds
    THEN CHOOSE k \in DOMAIN tokens :
            /\ tokens[k] \in kinds
            /\ \A j \in 1..(k - 1) : tokens[j] \notin kinds
    ELSE Len(tokens) + 1

\* urlparse of "https://<labels joined by dots><tail>": the fragment starts
\* after the first hash sign, the query after the first question mark
\* before it.
ParseUrl(text) ==
    LET h == FirstOf(text.tail, {"#"})
        front == SubSeq(text.tail, 1, h - 1)
        q == FirstOf(front, {"?"})
    IN  [netloc |-> text.netloc,
         path |-> SubSeq(front, 1, q - 1),
         query |-> SubSeq(front, q + 1, Len(front)),
         fragment |-> SubSeq(text.tail, h + 1, Len(text.tail))]

\* urlunparse: a question mark or a hash sign is written only before a
\* query or a fragment that is not empty.
urlunparse(parsed) ==
    [netloc |-> parsed.netloc,
     tail |-> parsed.path
              \o (IF parsed.query = <<>> THEN <<>> ELSE <<"?">> \o parsed.query)
              \o (IF parsed.fragment = <<>> THEN <<>>
                  ELSE <<"#">> \o parsed.fragment)]

\* strip_imgur_subdomain(url) of the text of a url
strip_imgur_subdomain_of_text(text) ==
    LET parsed == ParseUrl(text)
    IN  IF imgur_host(parsed.netloc)
        THEN urlunparse(strip_imgur_subdomain(parsed))
        ELSE text

\* strip_imgur_subdomain(url), and once more on what it returned.  The host
\* has up to three labels; what follows the host starts with a slash, a
\* question mark or a hash sign.
CallStrip ==
    /\ pc = "given"
    /\ store = EmptyDb
    /\ entry' = "strip_imgur_subdomain"
    /\ \E netloc \in SeqsUpTo({"i", "imgur", "notimgur", "com"}, 3) :
       \E tail \in SeqsUpTo({"/", "?", "#", "x"}, MaxTokens - 2) :
          /\ netloc /= <<>>
          /\ tail /= <<>> => tail[1] /= "x"
          /\ LET text == [netloc |-> netloc, tail |-> tail]
                 out == strip_imgur_subdomain_of_text(text)
             IN  calls' = <<[text |-> text, out |-> out,
                             twice |-> strip_imgur_subdomain_of_text(out)]>>
    /\ pc' = "called"
    /\ UNCHANGED <<static, store, txn, conn, runs, args, status, paging, outcome,
                   trail, stmts, todo, searchLoop, slept, before, dispatched>>

\* insert_submission(cursor, submission, query), called up to MaxItems times
\* in a row on the empty database: the submissions have one of two ids and
\* one of two urls.
CallInsertSubmission ==
    /\ pc \in {"given", "called"}
    /\ entry \in {"none", "insert_submission"}
    /\ store = EmptyDb
    /\ Len(calls) < MaxItems
    /\ entry' = "insert_submission"
    /\ \E i \in 1..2 : \E url \in {U_img, U_album} : \E query \in Queries :
          LET submission == Submission_from_json([ChildData(i) EXCEPT !.url = url])
          IN  /\ txn' = insert_submission(txn, submission, query)
              /\ calls' = Append(calls, [submission |-> submission, query |-> query])
    /\ pc' = "called"
    /\ UNCHANGED <<static, store, conn, runs, args, status, paging, outcome, trail,
                   stmts, todo, searchLoop, slept, before, dispatched>>

NextCalls ==
    \/ CallGetLinks
    \/ CallInsertOrIgnore
    \/ CallSniff
    \/ CallGetId
    \/ CallStrip
    \/ CallInsertSubmission

SpecCalls == InitCalls /\ [][NextCalls]_vars

\* ------------------------------------------------ images runs on a backlog

\* A third specification: runs of images.main on a medias table that
\* extract_links and subreddit have filled from what posts link to.

\* The urls of the medias, all of them media urls: an image of reddit, an album of two
\* images, a gallery without images, the image host's front page, the
\* reddit image host without a path.
BacklogUrls ==
    {U_reddit, U_album,
     Url(<<"imgur", "com">>, <<Seg("gallery", ""), Seg("DEF", "")>>),
     Url(<<"imgur", "com">>, <<>>),
     Url(<<"i", "redd", "it">>, <<Seg("", "")>>)}

InitImages ==
    /\ pipeline = "backlog"
    /\ nItems = 0
    /\ pageSize = 1
    /\ \E urls \in SeqsUpTo(BacklogUrls, MaxBacklog) :
          store = [EmptyDb EXCEPT !["medias"] =
                      [k \in DOMAIN urls |->
                          Stored(SubSeq(urls, 1, k - 1), "medias",
                                 Media(1, urls[k], FALSE, None))]]
    /\ txn = store
    /\ conn = "none"
    /\ runs = 0
    /\ entry = "none"
    /\ args = NoArgs
    /\ pc = "idle"
    /\ status = 0
    /\ after = None
    /\ page = <<>>
    /\ nextAfter = None
    /\ requests = <<>>
    /\ emitted = <<>>
    /\ outcome = "none"
    /\ derived = <<>>
    /\ startAfter = None
    /\ trail = <<>>
    /\ stmts = <<>>
    /\ todo = <<>>
    /\ searchLoop = [page |-> 1, stop_at |-> None]
    /\ slept = <<>>
    /\ before = store
    /\ calls = <<>>
    /\ dispatched = NoDispatch

NextImages ==
    \/ StartRun
    \/ ImagesBegin
    \/ IngestAlbum
    \/ IngestStandalone
    \/ ExceptTransient
    \/ ExceptAny
    \/ Else
    \/ Finally

SpecImages == InitImages /\ [][NextImages]_vars

\* ------------------------------------------- paginated_search on any pages

\* A fourth specification: one call of zappos.paginated_search in which
\* every request is answered with a successful page, whatever the page
\* holds.  The first page reports nItems as totalResultCount.

InitPages ==
    /\ pipeline = "pages"
    /\ nItems \in 0..MaxItems
    /\ pageSize \in 1..MaxPageSize
    /\ store = EmptyDb
    /\ txn = EmptyDb
    /\ conn = "open"
    /\ runs = 0
    /\ entry = "paginated_search"
    /\ args \in {[query |-> q, resume |-> FALSE, mode |-> "search"] : q \in Terms}
    /\ pc = "zsearch"
    /\ status = 0
    /\ after = None
    /\ page = <<>>
    /\ nextAfter = None
    /\ requests = <<>>
    /\ emitted = <<>>
    /\ outcome = "none"
    /\ derived = <<>>
    /\ startAfter = None
    /\ trail = <<>>
    /\ stmts = <<>>
    /\ todo = <<>>
    /\ searchLoop = [page |-> 1, stop_at |-> None]
    /\ slept = <<>>
    /\ before = EmptyDb
    /\ calls = <<>>
    /\ dispatched = NoDispatch

\* One turn of the loop of paginated_search: the page answered holds up to
\* pageSize results.  page += 1; the page number is kept up to MaxItems + 1,
\* beyond it only whether it is odd or even.
SearchTurn ==
    /\ pc = "zsearch"
    /\ IF searchLoop.stop_at.some THEN Len(todo) < searchLoop.stop_at.val ELSE TRUE
    /\ \E n \in 0..pageSize :
          LET params == search(args.query, searchLoop.page, MAX_SEARCH_LIMIT)
              data == [totalResultCount |-> Digits(nItems),
                       results |-> [k \in 1..n |-> SearchResult(Len(todo) + k)]]
          IN  /\ calls' = <<[params |-> params, data |-> data]>>
              /\ todo' = todo \o [k \in DOMAIN data.results |->
                                    ProductSearchResult(data.results[k], args.query)]
              /\ searchLoop' =
                    [page |-> IF searchLoop.page <= MaxItems + 1
                              THEN searchLoop.page + 1
                              ELSE searchLoop.page - 1,
                     stop_at |-> Some(StopAt(searchLoop.stop_at, data))]
    /\ UNCHANGED <<static, store, txn, conn, runs, entry, args, pc, status, paging,
                   outcome, trail, stmts, slept, before, dispatched>>

\* The loop of paginated_search ends: return results.
SearchReturn ==
    /\ pc = "zsearch"
    /\ IF searchLoop.stop_at.some THEN Len(todo) >= searchLoop.stop_at.val ELSE FALSE
    /\ pc' = "returned"
    /\ calls' = <<>>
    /\ UNCHANGED <<static, store, txn, conn, runs, entry, args, status, paging,
                   outcome, trail, stmts, work, before, dispatched>>

NextPages ==
    \/ SearchTurn
    \/ SearchReturn

\* The call goes on while it can: the loop does not pause of itself.
SpecPages == InitPages /\ [][NextPages]_vars /\ WF_vars(NextPages)

\* ------------------------------------------------------------------- claims

RedditEntries == {"fetch", "subreddit"}

\* The ids of a table's rows.
Ids(rows) == {rows[k].id : k \in DOMAIN rows}

\* The number of rows of a table with the given id.
Count(rows, id) == Cardinality({k \in DOMAIN rows : rows[k].id = id})

\* Whether a stored row has the same unique key as the row.
KeyConflict(rows, table, row) ==
    \E key \in UniqueKeys(table) : \E k \in DOMAIN rows : SameKey(key, rows[k], row)

\* No table holds two rows with the same unique key.
UniqueRows(db) ==
    \A t \in Tables : \A key \in UniqueKeys(t) :
        \A j, k \in DOMAIN db[t] : SameKey(key, db[t][j], db[t][k]) => j = k

\* Every insert statement of a step whose instance has the key of a stored
\* row leaves its table as it was.
NoOpOnConflict ==
    \A k \in DOMAIN stmts' :
        KeyConflict(txn[stmts'[k].table], stmts'[k].table, stmts'[k].row)
            => txn'[stmts'[k].table] = txn[stmts'[k].table]

\* C1: insert-or-ignore is a no-op on a key conflict: a statement whose
\* instance has the unique key of a stored row leaves the table exactly as it
\* was (same rows, same field values), and no table ever holds two rows with
\* the same unique key.
C1_InsertOrIgnoreNoOp ==
    /\ [](UniqueRows(txn) /\ UniqueRows(store))
    /\ [][NoOpOnConflict]_vars

\* C1 happens: a statement whose instance differs from the stored row with
\* its id was executed, and the stored row is still there.
C1_Witness ==
    \E k \in DOMAIN stmts : \E j \in DOMAIN txn[stmts[k].table] :
        /\ stmts[k].table = "submissions"
        /\ entry = "subreddit"
        /\ txn[stmts[k].table][j].id = stmts[k].row.id
        /\ txn[stmts[k].table][j].search_query /= stmts[k].row.search_query

\* The upstream submissions of the run's query.
Listed == Range(Upstream(args.query))

\* C2: an ingest without resume that ends by exhausting the pages leaves
\* exactly one submission row per upstream submission (N rows from an empty
\* store), and adds no row when the store already held them all.
C2_IngestIdempotent ==
    (entry \in RedditEntries /\ ~args.resume /\ outcome = "exhausted" /\ pc = "else")
        => /\ \A i \in Listed : Count(txn["submissions"], i) = 1
           /\ store["submissions"] = <<>>
                 => Len(txn["submissions"]) = Len(Upstream(args.query))
           /\ Listed \subseteq Ids(store["submissions"])
                 => Len(txn["submissions"]) = Len(store["submissions"])

\* C2 happens: a second run over the same two or more submissions has
\* exhausted the pages.
C2_Witness ==
    /\ entry \in RedditEntries /\ ~args.resume /\ outcome = "exhausted" /\ pc = "else"
    /\ runs = 2
    /\ Len(Upstream(args.query)) >= 2
    /\ Listed = Ids(store["submissions"])
    /\ Len(txn["submissions"]) = Len(Upstream(args.query))

\* The store is still what it was when the run started.
Uncommitted == conn = "open" /\ "commit" \notin Range(trail)

\* The submission_facts rows of the run's query, at the start of the run.
OwnFacts ==
    {k \in DOMAIN store["submission_facts"] :
        store["submission_facts"][k].search_query = args.query}

\* Whether id is that of a row of the query with the least created_utc.
IsOldest(id) ==
    \E k \in OwnFacts :
        /\ store["submission_facts"][k].id = id
        /\ \A j \in OwnFacts : store["submission_facts"][k].created_utc
                                  <= store["submission_facts"][j].created_utc

\* C3: get_oldest_submission(query) returns the id of the submission_facts
\* row with the least created_utc among the rows of that query, and None
\* when the table holds no row of that query.
C3_OldestSubmission ==
    (Uncommitted /\ derived /= <<>>)
        => IF OwnFacts = {} THEN derived[1] = None
           ELSE derived[1].some /\ IsOldest(derived[1].val)

\* C3 happens: the query has several rows, another query has rows too.
C3_Witness ==
    /\ Uncommitted /\ derived /= <<>>
    /\ derived[1].some
    /\ Cardinality(OwnFacts) >= 2

\* C4: a resumed fetch run starts paging at "t3_" + the id of the oldest
\* stored submission of the query (or without cursor when there is none),
\* derives the cursor once, and when it ends by exhausting the pages every
\* upstream submission of the query is stored exactly once.
C4_ResumeNoGapNoDuplicate ==
    (entry = "fetch" /\ args.resume /\ Uncommitted /\ pc \notin {"ingest"}
        /\ outcome /= "sqlite3.Error")
        => /\ Len(derived) = 1
           /\ IF OwnFacts = {} THEN startAfter = None
              ELSE \E i \in Ids(store["submission_facts"]) :
                       IsOldest(i) /\ startAfter = Fullname(i)
           /\ requests /= <<>> => requests[1].after = startAfter
           /\ outcome = "exhausted"
                 => \A i \in Listed : Count(txn["submissions"], i) = 1

\* C4 happens: a run resumed below the newest submissions has exhausted the
\* pages and stored the older ones.
C4_Witness ==
    /\ entry = "fetch" /\ args.resume /\ pc = "else" /\ outcome = "exhausted"
    /\ startAfter.some
    /\ Cardinality(OwnFacts) >= 1
    /\ Len(txn["submissions"]) > Len(store["submissions"])
    /\ Len(txn["submissions"]) = Len(Upstream(args.query))

\* The pages needed for n items at page size p: ceil(n / p).
CeilDiv(n, p) == (n + p - 1) \div p

\* A search that started without cursor has run through to the last page.
Exhausted ==
    /\ entry \in RedditEntries
    /\ outcome = "exhausted"
    /\ startAfter = None

\* C5 as stated: the page count is ceil(N / P) for every N.
C5_Original ==
    Exhausted => Len(emitted) = CeilDiv(Len(Upstream(args.query)), pageSize)

\* C5, amended: paginated_search started without cursor, against a backend
\* that never fails, emits ceil(N / P) pages when N >= 1 and one (empty) page
\* when N = 0; every emitted page is ok and request i + 1 carries the
\* 'after' read from page i.
C5_PageCount ==
    Exhausted
        => /\ Len(emitted) = IF Len(Upstream(args.query)) = 0 THEN 1
                             ELSE CeilDiv(Len(Upstream(args.query)), pageSize)
           /\ Len(requests) = Len(emitted)
           /\ requests[1].after = None
           /\ \A i \in DOMAIN emitted : emitted[i].ok
           /\ \A i \in 1..(Len(emitted) - 1) : requests[i + 1].after = emitted[i].after
           /\ \A i \in 1..(Len(emitted) - 1) : emitted[i].after.some
           /\ emitted[Len(emitted)].after = None

\* C5 happens: three items at page size two took two pages.
C5_Witness ==
    /\ Exhausted
    /\ Len(Upstream(args.query)) = 3
    /\ pageSize = 2
    /\ Len(emitted) = 2

\* C6: when the response to request k is not ok, paginated_search has
\* emitted the k - 1 pages before it and not the failed response, raises
\* nothing (main goes on to commit and return), and issues no further request.
C6_FailureEndsPaging ==
    \A k \in DOMAIN requests :
        (~requests[k].ok /\ ~requests[k].raised)
            => /\ k = Len(requests)
               /\ Len(emitted) = k - 1
               /\ \A i \in DOMAIN emitted : emitted[i].ok
               /\ outcome = "failed"
               /\ pc \in {"else", "finally", "returned"}

\* C6 happens: the second request failed after one emitted page.
C6_Witness ==
    /\ Len(requests) = 2
    /\ ~requests[2].ok /\ ~requests[2].raised
    /\ Len(emitted) = 1
    /\ pc = "returned"

\* C9 as stated: status 0 exactly when the pages were exhausted.
C9_Original ==
    (entry \in RedditEntries /\ pc = "returned")
        => (status = 0 <=> outcome = "exhausted")

\* C9, amended: the fetch/subreddit main returns status 0 exactly when ingest
\* raised nothing, which is when pagination ended by cursor exhaustion or was
\* cut short by a non-2xx response; either way the run is committed.  It
\* returns 1 exactly when sqlite3.Error was raised, after a rollback.
C9_ExitStatus ==
    (entry \in RedditEntries /\ pc = "returned")
        => /\ status = 0 <=> outcome \in {"exhausted", "failed"}
           /\ status = 0 <=> trail = <<"commit", "close">>
           /\ status = 1 <=> outcome = "sqlite3.Error"
           /\ status = 1 <=> trail = <<"rollback", "close">>

\* C9 happens: a run cut short by a failed request after a stored page
\* returned 0.
C9_Witness ==
    /\ entry \in RedditEntries /\ pc = "returned"
    /\ outcome = "failed"
    /\ status = 0
    /\ Len(emitted) >= 1
    /\ store["submissions"] /= <<>>

\* An images run in which an image-host call raised RateLimitError.
Throttled == entry = "images" /\ outcome = "RateLimitError"

\* The rows of the tables the images run writes.
ImageRows(db) == Len(db["albums"]) + Len(db["images"])

\* C7: when an image-host call raises RateLimitError during an images run,
\* the step that handles it commits every row the run has inserted (the
\* database file becomes what the connection saw when the signal was raised),
\* no media is processed after the signal, and main returns status 1 after
\* one commit and the close.
C7_PartialCommitOnThrottling ==
    /\ [](Throttled /\ pc = "returned"
            => status = 1 /\ trail = <<"commit", "close">>)
    /\ [][Throttled /\ pc /= "returned"
            => /\ store' = txn
               /\ todo' = todo
               /\ status' = 1
               /\ pc' \in {"finally", "returned"}]_vars

\* C7 happens: a throttled run returned with an album's rows committed and
\* the media that raised the signal still unprocessed.
C7_Witness ==
    /\ Throttled
    /\ pc = "returned"
    /\ ImageRows(store) > ImageRows(before)
    /\ todo /= <<>>

\* The exceptions a run can end with.
Errors ==
    {"sqlite3.Error", "Timeout", "ConnectionError", "ValueError", "HTTPError",
     "AttributeError", "RateLimitError"}

\* A run has ended with an error other than throttling.
Aborted ==
    /\ pc \in {"returned", "raised"}
    /\ outcome \in Errors \ {"RateLimitError"}

\* C8 as stated: a run of any entry point that ends with an error other than
\* throttling leaves the store as it was before the run.
C8_Original == Aborted => store = before

\* The runs whose except clause commits on an error other than throttling:
\* zappos --fetch on any exception, images on requests.Timeout.
CommitsOnError ==
    \/ entry = "zappos" /\ args.mode = "fetch"
    \/ entry = "images" /\ outcome = "Timeout"

\* C8, amended: a run that ends with an error other than throttling leaves
\* the store as it was before the run, except a zappos --fetch run, whatever
\* the error, and an images run that ends with requests.Timeout: these commit
\* what the run had inserted.  fetch, subreddit and extract_links roll back on
\* sqlite3.Error only; after another exception the store is as before because
\* the close drops the uncommitted rows.
C8_AbortRollsBack ==
    Aborted =>
        IF CommitsOnError
        THEN trail = <<"commit", "close">>
        ELSE /\ store = before
             /\ trail \in {<<"rollback", "close">>, <<"close">>}

\* C8 happens: a fetch/subreddit run that had inserted a whole page and gone
\* on to the next ended with sqlite3.Error, and the page's rows are gone.
C8_Witness ==
    /\ Aborted
    /\ entry \in RedditEntries
    /\ outcome = "sqlite3.Error"
    /\ Len(requests) = 2
    /\ store = before
    /\ store["submissions"] = <<>>
    /\ trail = <<"rollback", "close">>

\* C10: in every run of every entry point, whatever the outcome, exactly one
\* of commit and rollback is executed, before the one close of the connection.
C10_TransactionDiscipline ==
    pc \in {"returned", "raised"}
        => trail \in {<<"commit", "close">>, <<"rollback", "close">>}

\* A request of the images run was answered with a response of status st.
Answered(call, st) == call.x.exc = "none" /\ call.x.status = st

\* A request was answered 401 or 403.
AuthFailed(call) == \E st \in fail_on_statuses : Answered(call, st)

\* C11: a 401 or 403 answer to any request of the image-host or the generic
\* client (get_json, get_album's requests, get_image) makes the method raise
\* HTTPError instead of returning a metadata-only image or None; it is the
\* last request of the run, nothing is inserted for its media, and the images
\* run ends with a rollback and status 1, the store as the run found it.
C11_AuthFailureIsFatal ==
    /\ \A k \in DOMAIN calls :
          AuthFailed(calls[k])
              => /\ k = Len(calls)
                 /\ calls[k].out.exc = "HTTPError"
                 /\ outcome = "HTTPError"
                 /\ pc = "except_any"
                 /\ stmts = <<>>
    /\ (entry = "images" /\ outcome = "HTTPError")
          => /\ pc \in {"except_any", "finally", "returned"}
             /\ todo /= <<>>
             /\ pc = "returned"
                   => /\ status = 1
                      /\ trail = <<"rollback", "close">>
                      /\ store = before

\* C11 happens: the bytes of an album's second image were refused with 403
\* after the first image had been fetched.
C11_Witness ==
    /\ pc = "except_any"
    /\ Len(calls) = 3
    /\ calls[3].fn = "get_image"
    /\ Answered(calls[3], 403)
    /\ calls[2].out.exc = "none"

\* A rate-limit header is present with a value at or below 3.
AtOrBelowThree(header) == header.some /\ header.val <= 3

\* C12: for a 2xx answer, ImgurClient.get_json raises RateLimitError, and
\* returns nothing, exactly when X-RateLimit-UserRemaining or
\* X-RateLimit-ClientRemaining is present with a value at or below 3;
\* otherwise it returns the parsed body.
C12_PreemptiveThrottleThreshold ==
    \A k \in DOMAIN calls :
        (calls[k].fn = "get_json" /\ Answered(calls[k], 200))
            => LET x == calls[k].x
                   out == calls[k].out
               IN  IF AtOrBelowThree(x.user) \/ AtOrBelowThree(x.client)
                   THEN out = Throw("RateLimitError")
                   ELSE out = Return(Some(ApiBody(calls[k].url)))

\* C12 happens: a 2xx answer with no user header and 3 client credits left
\* made get_json raise.
C12_Witness ==
    /\ Len(calls) = 1
    /\ calls[1].fn = "get_json"
    /\ calls[1].x = Response(200, None, Some(3))
    /\ calls[1].out.exc = "RateLimitError"
    /\ pc = "except_transient"

\* The JSON request of ImgurClient.get_album.
IsAlbumRequest(call) ==
    call.fn = "get_json" /\ call.url.path[2] = Seg("album", "")

\* C13: ImgurClient.get_album raises RateLimitError for any response whose
\* X-RateLimit-UserRemaining header is 0, whatever its status.
C13_ExhaustedCreditsRaise ==
    \A k \in DOMAIN calls :
        (IsAlbumRequest(calls[k]) /\ calls[k].x.exc = "none"
            /\ calls[k].x.user = Some(0))
            => /\ calls[k].out = Throw("RateLimitError")
               /\ outcome = "RateLimitError"

\* C14: a 429 answer to any request of ImgurClient (the JSON request for an
\* image's or an album's metadata, the request for an image's bytes) makes
\* the method raise RateLimitError: no item is skipped, no metadata-only image
\* is returned, no HTTPError is raised, and the run takes the path of the
\* throttling signal.
C14_TooManyRequestsIsThrottling ==
    \A k \in DOMAIN calls :
        (calls[k].client = "imgur" /\ Answered(calls[k], 429))
            => /\ calls[k].out = Throw("RateLimitError")
               /\ k = Len(calls)
               /\ outcome = "RateLimitError"
               /\ pc = "except_transient"
               /\ stmts = <<>>

\* C14 happens: the request for the bytes of a standalone image-host image
\* was answered 429 after its metadata had been fetched.
C14_Witness ==
    /\ Len(calls) = 2
    /\ calls[1].fn = "get_json" /\ calls[1].out.exc = "none"
    /\ calls[2].fn = "get_image" /\ calls[2].client = "imgur"
    /\ Answered(calls[2], 429)
    /\ pc = "except_transient"

\* The byte fetches of ImgurClient.
IsImgurImageRequest(call) == call.fn = "get_image" /\ call.client = "imgur"

\* The request went to the bare image-host domain, path unchanged.
Rewritten(call) ==
    /\ call.url.netloc = <<"imgur", "com">>
    /\ call.url.path = call.given.path

\* C15 as stated: ImgurClient.get_image rewrites the host and sends the
\* request without the Authorization header.
C15_Original ==
    \A k \in DOMAIN calls :
        IsImgurImageRequest(calls[k])
            => Rewritten(calls[k]) /\ calls[k].Authorization = None

\* C15, amended: ImgurClient.get_image rewrites the host of the url with
\* strip_imgur_subdomain and sends the GET with the Authorization header of
\* the client, as it is Client.get_image with self.headers of ImgurClient;
\* the credential is not stripped.
C15_ImageFetchRewritesHost ==
    \A k \in DOMAIN calls :
        IsImgurImageRequest(calls[k])
            => /\ Rewritten(calls[k])
               /\ calls[k].Authorization = Some("Client-ID <client_id>")
               /\ calls[k].Accept = None

\* C15 happens: the bytes of i.imgur.com/XYZ.jpg were fetched from imgur.com.
C15_Witness ==
    /\ Len(calls) = 2
    /\ IsImgurImageRequest(calls[2])
    /\ calls[2].given = U_img
    /\ calls[2].given.netloc = <<"i", "imgur", "com">>
    /\ calls[2].url.netloc = <<"imgur", "com">>
    /\ calls[2].out.exc = "none"

\* C16: every request ImgurClient issues (get_json for an image or an album,
\* get_image for the bytes) carries Authorization: Client-ID <client_id>.
C16_ImgurRequestsCarryCredential ==
    \A k \in DOMAIN calls :
        calls[k].client = "imgur"
            => calls[k].Authorization = Some("Client-ID <client_id>")

\* C16 happens: get_album made its JSON request and the two byte fetches of
\* the album's images.
C16_Witness ==
    /\ Len(calls) = 3
    /\ IsAlbumRequest(calls[1])
    /\ IsImgurImageRequest(calls[2])
    /\ IsImgurImageRequest(calls[3])
    /\ \A k \in 1..3 : calls[k].out.exc = "none"

\* A request was answered with a failure that is neither fatal nor
\* throttling: not 2xx, and not 401, 403 or 429.
TransientFailure(call) ==
    /\ call.x.exc = "none"
    /\ call.x.status >= 300
    /\ call.x.status \notin {401, 403, 429}

InsertedRows(table) ==
    {stmts[k].row : k \in {j \in DOMAIN stmts : stmts[j].table = table}}

DispatchAnswered(k, st) ==
    /\ k \in DOMAIN dispatched.made
    /\ dispatched.made[k].exc = "none"
    /\ dispatched.made[k].status = st

\* C19: a dispatch whose first response is 429 sleeps the retry delay of
\* 120 s and issues exactly one more request; a 2xx second response is
\* returned, a second 429 makes dispatch raise; no dispatch issues more than
\* 2 requests.
C19_DispatchRetriesOnce ==
    /\ Len(dispatched.made) <= 2
    /\ DispatchAnswered(1, 429)
          => /\ Len(dispatched.made) = 2
             /\ dispatched.sleeps /= <<>>
             /\ dispatched.sleeps[1] = 120
             /\ DispatchAnswered(2, 200)
                   => /\ dispatched.exc = "none"
                      /\ dispatched.response = Some(dispatched.made[2])
             /\ DispatchAnswered(2, 429)
                   => /\ dispatched.exc = "HTTPError"
                      /\ pc = "except_zappos"
    /\ Len(dispatched.made) = 2 => DispatchAnswered(1, 429)

\* C19 happens: a first 429, a sleep of 120 s, and a second response 200 that
\* dispatch returned.
C19_Witness ==
    /\ DispatchAnswered(1, 429)
    /\ DispatchAnswered(2, 200)
    /\ dispatched.sleeps = <<120>>
    /\ dispatched.exc = "none"
    /\ outcome = "none"

\* C20: when the first response has a status that is not 2xx and not 429,
\* dispatch issues that one request, sleeps not at all, and raises.
C20_DispatchRaisesOtherFailures ==
    (/\ dispatched.made /= <<>>
     /\ dispatched.made[1].exc = "none"
     /\ dispatched.made[1].status >= 300
     /\ dispatched.made[1].status /= 429)
        => /\ Len(dispatched.made) = 1
           /\ dispatched.sleeps = <<>>
           /\ dispatched.exc = "HTTPError"
           /\ dispatched.response = Some(dispatched.made[1])

\* C20 happens: a catalog search answered 500 once raised out of the run's
\* try block.
C20_Witness ==
    /\ DispatchAnswered(1, 500)
    /\ Len(dispatched.made) = 1
    /\ dispatched.sleeps = <<>>
    /\ outcome = "HTTPError"
    /\ pc = "except_zappos"
    /\ args.mode = "search"

\* A remaining-calls header that is present and at most 1.
Low(remaining) == remaining.some /\ remaining.val <= 1

\* The last dispatch returned a response.
Dispatched == dispatched.made /= <<>> /\ dispatched.exc = "none"

\* The sleeps of the last dispatch after those of its retries.
PreemptiveSleeps ==
    SubSeq(dispatched.sleeps, Len(dispatched.made), Len(dispatched.sleeps))

\* The seconds until the reset of the window that is low in the response, the
\* long window's when both are.
UntilReset(response) ==
    IF Low(response.long) THEN response.reset_long ELSE response.reset_short

\* C21 as stated: a successful dispatch with a low window sleeps once,
\* whatever the reset timestamp.
C21_Original ==
    Dispatched =>
        LET response == dispatched.response.val
        IN  IF Low(response.long) \/ Low(response.short)
            THEN PreemptiveSleeps = <<UntilReset(response)>>
            ELSE PreemptiveSleeps = <<>>

\* C21, amended: after a successful dispatch, when the short-window or the
\* long-window remaining counter is at or below 1 and the reset timestamp of
\* the low window (the long window's when both are low) is in the future,
\* dispatch sleeps once, before returning, for the time until that reset; when
\* that timestamp is not in the future, or both counters are above 1 or
\* absent, it does not sleep.
C21_PreemptiveSelfThrottling ==
    Dispatched =>
        LET response == dispatched.response.val
        IN  IF (Low(response.long) \/ Low(response.short))
               /\ UntilReset(response) > 0
            THEN PreemptiveSleeps = <<UntilReset(response)>>
            ELSE PreemptiveSleeps = <<>>

\* C21 happens: a dispatch whose response has both windows low slept for the
\* time until the long window's reset and returned.
C21_Witness ==
    /\ Dispatched
    /\ Low(dispatched.response.val.long)
    /\ Low(dispatched.response.val.short)
    /\ dispatched.response.val.reset_long /= dispatched.response.val.reset_short
    /\ dispatched.sleeps = <<dispatched.response.val.reset_long>>
    /\ outcome = "none"

\* The run fetches products.
FetchesProducts == entry = "zappos" /\ args.mode = "fetch"

\* The records zappos.main hands to get_products: those the run found to
\* fetch when it started.
Records ==
    LET found == ProductsToFetch(before)
    IN  [k \in DOMAIN found |-> found[k].row]

\* The products rows the run has inserted.
Yielded ==
    SubSeq(txn["products"], Len(before["products"]) + 1, Len(txn["products"]))

\* The place of the record of a product in the batch.
PlaceOf(product_id) == CHOOSE k \in DOMAIN Records : Records[k].product_id = product_id

\* The records not yet fetched are the end of the batch, and the products
\* yielded so far are products of the batch, in the order of the batch.
BatchInOrder ==
    FetchesProducts =>
        /\ \E n \in 0..Len(Records) : todo = SubSeq(Records, n + 1, Len(Records))
        /\ \A k \in DOMAIN Yielded :
              \E j \in DOMAIN Records : Records[j].product_id = Yielded[k].id
        /\ \A j, k \in DOMAIN Yielded :
              j < k => PlaceOf(Yielded[j].id) < PlaceOf(Yielded[k].id)
        /\ pc = "else" => todo = <<>>

\* The last dispatch raised HTTPError for a response with one of the statuses.
FailedWith(d, statuses) ==
    /\ d.exc = "HTTPError"
    /\ d.response.some
    /\ d.response.val.status \in statuses

\* A step of get_products: a product fetch that fails with 404 or 504 passes
\* the record over and goes on with the next; one that fails with another
\* status raises; once the batch has raised no further request is made.
DegradeOrAbort ==
    FetchesProducts =>
        /\ (pc = "loop" /\ FailedWith(dispatched', {404, 504}))
              => /\ todo' = Tail(todo)
                 /\ pc' = IF Tail(todo) = <<>> THEN "else" ELSE "loop"
                 /\ txn' = txn
                 /\ outcome' = "none"
        /\ (pc = "loop" /\ FailedWith(dispatched', {429, 500}))
              => /\ todo' = todo
                 /\ pc' = "except_zappos"
                 /\ txn' = txn
                 /\ outcome' = "HTTPError"
        /\ (outcome /= "none" /\ runs' = runs) => dispatched' = NoDispatch /\ todo' = todo

\* C22: in get_products a product whose fetch fails with HTTP 404 or 504 is
\* skipped and the later products of the batch are still fetched and yielded
\* in input order; a fetch that fails with another HTTP error stops the batch
\* by raising, and no later product is fetched.
C22_DegradeVersusAbort ==
    /\ []BatchInOrder
    /\ [][DegradeOrAbort]_vars

\* C22 happens: of a batch of two products the first was passed over and the
\* second was fetched and yielded, and the batch has ended without error.
C22_Witness ==
    /\ FetchesProducts
    /\ Len(Records) = 2
    /\ pc = "else"
    /\ outcome = "none"
    /\ Len(Yielded) = 1
    /\ Yielded[1].id = Records[2].product_id

\* The run searches the catalog.
SearchesCatalog == entry = "zappos" /\ args.mode = "search"

\* paginated_search has returned: the last request was answered and the loop
\* is left.
SearchReturned ==
    /\ SearchesCatalog
    /\ requests /= <<>>
    /\ requests[Len(requests)].total.some
    /\ pc /= "zsearch"

\* C23: paginated_search requests the pages 1, 2, 3, ... consecutively at
\* limit 500, reads the total T from the first page only and stops as soon as
\* the results gathered are at least T; with one result per page it issues
\* exactly T requests and returns T results.
C23_SearchStopsAtTotal ==
    (SearchesCatalog /\ requests /= <<>> /\ requests[1].total.some) =>
        LET T == requests[1].total.val
        IN  /\ \A k \in DOMAIN requests :
                  /\ requests[k].params.page = k
                  /\ requests[k].params.limit = 500
                  /\ requests[k].params.term = args.query
            /\ searchLoop.stop_at = Some(T)
            /\ \A k \in 1..(Len(requests) - 1) : requests[k].gathered < T
            /\ SearchReturned => requests[Len(requests)].gathered >= T
            /\ (SearchReturned /\ pageSize = 1 /\ T >= 1)
                  => /\ Len(requests) = T
                     /\ requests[Len(requests)].gathered = T

\* C23 happens: at one result per page and a total of 3 on the first page,
\* more on the later ones, the search has returned after three requests.
C23_Witness ==
    /\ SearchReturned
    /\ pageSize = 1
    /\ requests[1].total = Some(3)
    /\ requests[2].total /= requests[1].total
    /\ Len(requests) = 3
    /\ Len(todo) = 3
    /\ pc = "loop"

\* The medias rows of the store no images row refers to, as (id, url) pairs.
Unresolved ==
    {[media_id |-> m.id, url |-> m.url] :
        m \in {r \in Range(store["medias"]) :
                 \A i \in Range(store["images"]) : i.media_id /= r.id}}

\* C24: get_links returns exactly the (id, url) pairs of the medias rows whose
\* id is the media_id of no images row of the store it is called against: a
\* media with an images row is not returned, every media without one is, once.
C24_LinkBacklogIsDifference ==
    (entry = "get_links" /\ pc = "called")
        => /\ Range(todo) = Unresolved
           /\ Len(todo) = Cardinality(Unresolved)

\* C24 happens: of three medias one has two images rows and one has one, and
\* get_links returned the third.
C24_Witness ==
    /\ entry = "get_links" /\ pc = "called"
    /\ Len(store["medias"]) = 3
    /\ Len(store["images"]) = 3
    /\ \E m \in Range(store["medias"]) :
          Cardinality({k \in DOMAIN store["images"] :
                          store["images"][k].media_id = m.id}) = 2
    /\ Len(todo) = 1

\* Every medias row of the database refers to a submissions row, every albums
\* and images row to a medias row.
ReferencesPersisted(db) ==
    /\ \A m \in Range(db["medias"]) : m.submission_id \in Ids(db["submissions"])
    /\ \A a \in Range(db["albums"]) : a.media_id \in Ids(db["medias"])
    /\ \A i \in Range(db["images"]) : i.media_id \in Ids(db["medias"])

\* Among the statements of a step of subreddit.ingest the insert of a media
\* comes after that of its submission; among those of ingest_albums the insert
\* of an image of an album comes after that of the album.
ParentInsertedFirst ==
    /\ entry = "subreddit" =>
          \A k \in DOMAIN stmts :
              stmts[k].table = "medias" =>
                  \E j \in 1..(k - 1) :
                      /\ stmts[j].table = "submissions"
                      /\ stmts[j].row.id = stmts[k].row.submission_id
    /\ entry = "images" =>
          \A k \in DOMAIN stmts :
              (stmts[k].table = "images" /\ stmts[k].row.album_id /= None) =>
                  \E j \in 1..(k - 1) :
                      /\ stmts[j].table = "albums"
                      /\ Some(stmts[j].row.id) = stmts[k].row.album_id
                      /\ stmts[j].row.media_id = stmts[k].row.media_id

ViolatesNotNull ==
    /\ stmts[1].table = "posts"
    /\ stmts[1].row.author = None \/ stmts[1].row.content = None

\* The call of insert_or_ignore was given an image with the id of a stored one.
ViolatesUnique ==
    /\ stmts[1].table = "images"
    /\ \E r \in Range(store["images"]) : r.id = stmts[1].row.id

\* C26: insert_or_ignore of an instance that violates a not-null or a unique
\* constraint of the table raises nothing and adds no row; of a valid instance
\* into an empty table it adds exactly one row, with the instance's field
\* values.
C26_InsertOrIgnoreSwallows ==
    (entry = "insert_or_ignore" /\ pc = "called") =>
        LET table == stmts[1].table
            instance == stmts[1].row
        IN  /\ outcome = "none"
            /\ \A t \in Tables \ {table} : txn[t] = store[t]
            /\ (ViolatesNotNull \/ ViolatesUnique) => txn[table] = store[table]
            /\ (~ViolatesNotNull /\ ~ViolatesUnique /\ store[table] = <<>>)
                  => /\ Len(txn[table]) = 1
                     /\ \A f \in DOMAIN instance : txn[table][1][f] = instance[f]

\* C26 happens: a post without content was given, and posts is still empty.
C26_Witness ==
    /\ entry = "insert_or_ignore" /\ pc = "called"
    /\ stmts[1].table = "posts"
    /\ stmts[1].row.author /= None
    /\ stmts[1].row.content = None
    /\ txn["posts"] = <<>>
    /\ txn = store

\* The children of the k-th page the search of the run emitted.
ChildrenOfPage(k) == Range(SearchBackend(args.query, requests[k].after).children)

\* The submission of the child, and its direct media in a subreddit run, are
\* rows of the database.
Persisted(db, child) ==
    /\ child \in Ids(db["submissions"])
    /\ (entry = "subreddit" /\ is_media_url(UrlOf(child)))
          => \E m \in Range(db["medias"]) :
                 /\ m.submission_id = child
                 /\ m.url = UrlOf(child)
                 /\ m.is_direct

\* The pages emitted before the request that is about to be made, or was made
\* last, are in the transaction.
PagesPersisted ==
    LET done == IF pc = "page" THEN Len(emitted) - 1 ELSE Len(emitted)
    IN  \A k \in 1..done : \A child \in ChildrenOfPage(k) : Persisted(txn, child)

\* C27: in ingest the submissions (and direct medias) of page i are inserted
\* before the request for page i+1 is issued; when a failed response cuts the
\* pagination short at page k the rows of the pages 1..k-1 are in the
\* transaction, and they are committed when the run ends.
C27_PagesPersistedAsTheyArrive ==
    (entry \in RedditEntries /\ conn = "open"
        /\ outcome \in {"none", "failed", "exhausted"}) =>
        /\ PagesPersisted
        /\ outcome = "failed" =>
              /\ Len(emitted) = Len(requests) - 1
              /\ pc \in {"else", "finally"}
              /\ pc = "finally" =>
                    \A k \in DOMAIN emitted : \A child \in ChildrenOfPage(k) :
                        Persisted(store, child)

\* C27 happens: the second request of a run failed, the run has committed,
\* and the rows of the first page are new in the store.
C27_Witness ==
    /\ entry \in RedditEntries
    /\ outcome = "failed"
    /\ pc = "finally"
    /\ Len(requests) = 2
    /\ Len(emitted) = 1
    /\ ChildrenOfPage(1) /= {}
    /\ \A child \in ChildrenOfPage(1) :
          Persisted(store, child) /\ ~Persisted(before, child)

\* The media is a row of the database, whatever its generated id.
MediaStored(db, media) ==
    \E m \in Range(db["medias"]) : \A f \in DOMAIN media : m[f] = media[f]

\* The run found in the store everything it was going to insert: an earlier
\* run of the same entry point against the same upstream data had completed.
RanBefore ==
    \/ /\ entry = "subreddit"
       /\ \A child \in Listed :
             /\ ScrapeSubmission(ChildData(child), SUBREDDIT, args.query)
                   \in Range(before["submissions"])
             /\ Persisted(before, child)
    \/ /\ entry = "extract_links"
       /\ Chain(get_submission_contents(before)) /= <<>>
       /\ \A media \in Range(Chain(get_submission_contents(before))) :
             MediaStored(before, media)

\* C28: a run of the subreddit ingest, or of the extraction of the links of
\* the bodies, that follows a completed run against the same upstream data
\* leaves the whole store, medias rows included, as it found it.
C28_RunsRepeatable ==
    (pipeline = "scrape" /\ pc = "returned" /\ status = 0
        /\ outcome \in {"none", "exhausted"} /\ RanBefore)
        => store = before

\* A request of the last step of an images run timed out.
TimedOut == \E k \in DOMAIN calls : calls[k].x.exc = "Timeout"

\* C29 as stated: after a timed-out call the item is skipped and the run goes
\* on with the next item.
C29_Original ==
    (entry = "images" /\ TimedOut)
        => /\ outcome = "none"
           /\ pc \in {"loop", "else"}

\* C29, amended: a timed-out HTTP call ends the run.  In an images run it is
\* handled like the throttling signal: no further item is processed, the rows
\* inserted before it are committed and main returns status 1.  In a fetch or
\* subreddit run the exception leaves main: the connection is closed without
\* a commit and the store is as the run found it.
C29_TimeoutEndsTheRun ==
    /\ (entry = "images" /\ TimedOut)
          => outcome = "Timeout" /\ pc = "except_transient"
    /\ (entry = "images" /\ outcome = "Timeout")
          => /\ pc \in {"except_transient", "finally", "returned"}
             /\ todo /= <<>>
             /\ pc /= "except_transient" =>
                   /\ calls = <<>>
                   /\ status = 1
                   /\ store = txn
                   /\ "commit" \in Range(trail)
                   /\ "rollback" \notin Range(trail)
    /\ (entry \in RedditEntries /\ outcome = "Timeout")
          => /\ pc \in {"propagate", "raised"}
             /\ store = before
             /\ "commit" \notin Range(trail)

\* C29 happens: an images run that had inserted rows met a timeout with
\* medias left to process, committed the rows and returned 1.
C29_Witness ==
    /\ entry = "images"
    /\ outcome = "Timeout"
    /\ pc = "returned"
    /\ status = 1
    /\ Len(todo) >= 1
    /\ Len(store["images"]) > Len(before["images"])

\* The non-empty path segments of the text given to sniff_imgur_resource:
\* the names before the first hash sign.
SegmentsOf(text) ==
    LET hashes == {k \in DOMAIN text : text[k] = "#"}
        path == {k \in DOMAIN text : \A h \in hashes : k < h}
    IN  SelectSeq([k \in DOMAIN text |-> IF k \in path THEN text[k] ELSE "#"],
                  LAMBDA t : t \in {"a", "gallery", "image", "ABC"})

\* What the first segment stands for; None for anything else.
DecidedBy(segments) ==
    IF segments = <<>> THEN "None"
    ELSE CASE segments[1] = "a" -> "album"
           [] segments[1] = "gallery" -> "gallery"
           [] segments[1] = "image" -> "image"
           [] OTHER -> "None"

\* C30: sniff_imgur_resource gives 'image' for exactly one non-empty path
\* segment; otherwise the first segment decides ('a': 'album', 'gallery':
\* 'gallery', 'image': 'image', anything else: None); the result for /a/<id>
\* and /gallery/<id> is the same with a trailing slash, further segments or a
\* '#fragment' appended.
C30_SniffByPathSegments ==
    (entry = "sniff_imgur_resource" /\ pc = "called") =>
        LET text == calls[1].text
            segments == SegmentsOf(text)
        IN  /\ Len(segments) = 1 => calls[1].out = "image"
            /\ Len(segments) /= 1 => calls[1].out = DecidedBy(segments)
            /\ (/\ Len(text) >= 4
                /\ SubSeq(text, 1, 4) \in {<<"/", "a", "/", "ABC">>,
                                           <<"/", "gallery", "/", "ABC">>})
                  => calls[1].out = DecidedBy(<<text[2]>>)


\* The decorations of a url: nothing, a trailing slash, a fragment, a file
\* extension.
Decorations == {<<>>, <<"/">>, <<"#", "jpg">>, <<".", "jpg">>}

\* The text is the base followed by the decoration.
Decorated(text, base, d) ==
    /\ Len(text) = Len(base) + Len(d)
    /\ SubSeq(text, 1, Len(base)) = base
    /\ SubSeq(text, Len(base) + 1, Len(text)) = d

\* The bases of a called text: what is left when a decoration is taken off.
BasesOf(text, d) ==
    {SubSeq(text, 1, k) : k \in {j \in 0..Len(text) :
                                  Decorated(text, SubSeq(text, 1, j), d)}}

\* The base ends with its last path segment, a name without a dot.
EndsWithId(base) ==
    /\ Len(base) >= 2
    /\ base[Len(base)] \in {"ABC", "jpg"}
    /\ base[Len(base) - 1] = "/"
    /\ \A k \in DOMAIN base : base[k] /= "#"

\* The last non-empty path segment of the base is one name without a dot;
\* slashes or a fragment may follow it.
LastSegmentIsId(base, id) ==
    \E k \in 2..Len(base) :
        /\ base[k] = id
        /\ id \in {"ABC", "jpg"}
        /\ base[k - 1] = "/"
        /\ \A j \in 1..k : base[j] /= "#"
        /\ \/ \A j \in (k + 1)..Len(base) : base[j] = "/"
           \/ \E h \in (k + 1)..Len(base) :
                 /\ base[h] = "#"
                 /\ \A j \in (k + 1)..(h - 1) : base[j] = "/"

\* C31 (as the code has it): for a url that ends with its last path segment
\* ID, a name without a dot, get_id returns ID, and it returns the same ID
\* when a trailing slash, a '#fragment' or a file extension is appended to
\* that url.
C31_GetIdUnderDecoration ==
    (entry = "get_id" /\ pc = "called") =>
        \A d \in Decorations : \A base \in BasesOf(calls[1].text, d) :
            EndsWithId(base) => calls[1].out = Return(base[Len(base)])

\* get_id was called with a url that ends with an id and a file extension.
C31_Witness ==
    /\ entry = "get_id"
    /\ pc = "called"
    /\ calls[1].text = <<"/", "ABC", "/", "jpg", ".", "jpg">>
    /\ calls[1].out = Return("jpg")

\* C31 (as stated): for a url whose last non-empty path segment is ID,
\* get_id returns ID, and the same ID when a trailing slash, a '#fragment'
\* or a file extension is appended to that url.
C31_Original ==
    (entry = "get_id" /\ pc = "called") =>
        \A d \in Decorations : \A base \in BasesOf(calls[1].text, d) :
            \A id \in {"ABC", "jpg"} :
                LastSegmentIsId(base, id) => calls[1].out = Return(id)


\* What follows the host of a url, without the fragment.
BeforeFragment(tail) ==
    IF \E k \in DOMAIN tail : tail[k] = "#"
    THEN SubSeq(tail, 1, (CHOOSE k \in DOMAIN tail :
                            /\ tail[k] = "#"
                            /\ \A j \in 1..(k - 1) : tail[j] /= "#") - 1)
    ELSE tail

\* The fragment of a url.
FragmentOf(tail) ==
    SubSeq(tail, Len(BeforeFragment(tail)) + 2, Len(tail))

\* The path and the query of a url: the text before the fragment, where a
\* question mark that nothing follows stands for no query.
PathAndQuery(tail) ==
    LET front == BeforeFragment(tail)
    IN  IF /\ front /= <<>>
           /\ front[Len(front)] = "?"
           /\ \A k \in 1..(Len(front) - 1) : front[k] /= "?"
        THEN SubSeq(front, 1, Len(front) - 1)
        ELSE front

\* The host of the url is imgur.com or a subdomain of it.
AtImgur(netloc) ==
    \E k \in 0..(Len(netloc) - 2) :
        SubSeq(netloc, k + 1, Len(netloc)) = <<"imgur", "com">>

\* C32: strip_imgur_subdomain rewrites a host <anything>.imgur.com to
\* imgur.com and keeps the path, the query and the fragment; it returns
\* every other url unchanged; applied to what it returned it changes nothing.
C32_StripSubdomainIdempotent ==
    (entry = "strip_imgur_subdomain" /\ pc = "called") =>
        LET text == calls[1].text
            out == calls[1].out
        IN  /\ AtImgur(text.netloc) =>
                  /\ out.netloc = <<"imgur", "com">>
                  /\ PathAndQuery(out.tail) = PathAndQuery(text.tail)
                  /\ FragmentOf(out.tail) = FragmentOf(text.tail)
            /\ ~AtImgur(text.netloc) => out = text
            /\ calls[1].twice = out

\* A url of a subdomain with a query and a fragment was rewritten.
C32_Witness ==
    /\ entry = "strip_imgur_subdomain"
    /\ pc = "called"
    /\ calls[1].text = [netloc |-> <<"i", "imgur", "com">>,
                         tail |-> <<"?", "x", "#", "x">>]
    /\ calls[1].out = [netloc |-> <<"imgur", "com">>,
                        tail |-> <<"?", "x", "#", "x">>]
    /\ calls[1].twice = calls[1].out


\* The url is an album or a gallery of the image host.
ImageHostAlbum(url) ==
    /\ \E k \in DOMAIN url.netloc : url.netloc[k] \in {"imgur", "notimgur"}
    /\ Len(url.path) >= 2
    /\ url.path[1] \in {Seg("a", ""), Seg("gallery", "")}

\* Every media of the backlog is in exactly one of the two lists of
\* images.main, the album list if and only if it is an image-host album.
RoutedOnce ==
    \A k \in DOMAIN txn["medias"] :
        LET media == txn["medias"][k]
            places == {j \in DOMAIN todo : todo[j].media_id = media.id}
        IN  (\A i \in DOMAIN txn["images"] : txn["images"][i].media_id /= media.id)
            => /\ Cardinality(places) = 1
               /\ \A j \in places :
                     todo[j].kind = IF ImageHostAlbum(media.url)
                                    THEN "album" ELSE "standalone"

\* C33: is_album is False for a url whose host does not contain 'imgur' and
\* True for an image-host url exactly when it is an album or a gallery;
\* when images.main has split the backlog (the backlog was read), every
\* backlog media is in exactly one of the two lists.
C33_BacklogSplitInTwo ==
    [][(pc = "ingest" /\ entry = "images" /\ outcome' /= "sqlite3.Error")
          => RoutedOnce']_vars


\* The url has no non-empty path segment: it yields no resource id.
NoResourceId(url) ==
    \A k \in DOMAIN url.path : url.path[k] = Seg("", "")

\* C34: a media whose url yields no resource id is skipped by ingest_albums
\* and ingest_standalones and the medias after it are processed: while such
\* a media is the next of the list the run is in the loop, it does not end.
C34_NoIdMediaSkipped ==
    (entry = "images" /\ todo /= <<>> /\ NoResourceId(Head(todo).url))
        => (pc = "loop" /\ outcome = "none")


\* The ids of the images the payload of an album lists.
ImagesListedIn(album_id) ==
    IF album_id = "ABC" THEN {"ABC_1", "ABC_2"} ELSE {}

\* The rows of a table of db that the medias table ties to the media.
RowsOfMedia(db, table, media_id) ==
    {r \in Range(db[table]) : r.media_id = media_id}

\* Every album row of db has a row for each image its payload lists, and
\* every image row of an album has the album's row.
AlbumsWhole(db) ==
    /\ \A a \in Range(db["albums"]) :
          \A id \in ImagesListedIn(a.id) :
              \E r \in Range(db["images"]) :
                  r.id = id /\ r.album_id = Some(a.id) /\ r.media_id = a.media_id
    /\ \A r \in Range(db["images"]) :
          r.album_id /= None =>
              \E a \in Range(db["albums"]) :
                  a.id = r.album_id.val /\ a.media_id = r.media_id

\* C35: what an images run commits, at its end or after a throttling
\* signal, holds for every album either the album row and a row for each
\* image its payload lists, or no row of the album; a throttling signal (or
\* timeout) raised while an album or one of its images is fetched leaves
\* no row of that media.
C35_AlbumsAllOrNothing ==
    entry = "images" =>
        /\ AlbumsWhole(store)
        /\ (/\ outcome \in {"RateLimitError", "Timeout"}
            /\ todo /= <<>>
            /\ Head(todo).kind = "album")
              => /\ RowsOfMedia(txn, "albums", Head(todo).media_id)
                       \subseteq Range(before["albums"])
                 /\ RowsOfMedia(txn, "images", Head(todo).media_id)
                       \subseteq Range(before["images"])
                 /\ RowsOfMedia(store, "albums", Head(todo).media_id)
                       \subseteq Range(before["albums"])
                 /\ RowsOfMedia(store, "images", Head(todo).media_id)
                       \subseteq Range(before["images"])

\* A run committed after a throttling signal met at the second album: the
\* first album is stored whole, the second has no row.
C35_Witness ==
    /\ entry = "images"
    /\ outcome = "RateLimitError"
    /\ trail = <<"commit">>
    /\ todo /= <<>>
    /\ Head(todo).kind = "album"
    /\ Head(todo).media_id = 2
    /\ Len(store["albums"]) = 1
    /\ Len(store["images"]) = 2
    /\ RowsOfMedia(store, "albums", 2) = {}
    /\ RowsOfMedia(store, "images", 2) = {}


\* C36 (as the code has it): every media for which an earlier run persisted
\* an image row, of a standalone image or of an image of its album, is absent
\* from the backlog get_links returns in the next run.
C36_BacklogProgress ==
    entry = "images" =>
        \A j \in DOMAIN todo :
            RowsOfMedia(before, "images", todo[j].media_id) = {}

\* The second run works on the media the first run, stopped by a timeout or
\* a throttling signal after it had stored the album of the other media,
\* did not resolve.
C36_Witness ==
    /\ entry = "images"
    /\ runs = 2
    /\ pc = "loop"
    /\ Len(store["medias"]) = 2
    /\ RowsOfMedia(before, "albums", 1) /= {}
    /\ RowsOfMedia(before, "images", 1) /= {}
    /\ Len(todo) = 1
    /\ Head(todo).media_id = 2

\* C36 (as stated): every media for which an earlier run persisted an album
\* row or an image row is absent from the backlog get_links returns in the
\* next run.
C36_Original ==
    entry = "images" =>
        \A j \in DOMAIN todo :
            /\ RowsOfMedia(before, "images", todo[j].media_id) = {}
            /\ RowsOfMedia(before, "albums", todo[j].media_id) = {}


\* C37: after any sequence of fetch.insert_submission calls the ids of
\* submission_facts are the ids of submissions, also when one of the two
\* statements was ignored for a conflict on a column other than id.
C37_SubmissionTablesInStep ==
    entry = "insert_submission" =>
        Ids(txn["submission_facts"]) = Ids(txn["submissions"])


\* The sleeps of the retry delay in the last dispatch.
RetryDelaySleeps == {k \in DOMAIN dispatched.sleeps : dispatched.sleeps[k] = 120}

\* C38: in one dispatch the number of sleeps of the retry delay is the number
\* of retries issued, the requests after the first (0 or 1); after the last
\* attempt dispatch raises or returns without a further retry-delay sleep.
C38_SleepOnlyBeforeRetry ==
    dispatched.made /= <<>> =>
        /\ Len(dispatched.made) - 1 \in {0, 1}
        /\ Cardinality(RetryDelaySleeps) = Len(dispatched.made) - 1


\* C39: paginated_search terminates: whatever totalResultCount the first
\* page reports and whatever the successful pages hold, empty pages among
\* them, it makes finitely many search requests and returns.
C39_SearchTerminates == <>(pc = "returned")


\* C40: when zappos main ends with an exception, in search mode the
\* transaction is rolled back and no search-result row of the run persists,
\* in fetch mode the products inserted before the exception are committed;
\* in both modes the status is 1 and the connection is closed.
C40_RetailOutcomeByMode ==
    /\ [](entry = "zappos" =>
            /\ pc \notin {"propagate", "raised"}
            /\ (pc = "returned" /\ outcome /= "none") =>
                  /\ status = 1
                  /\ conn = "closed"
                  /\ args.mode = "search" =>
                        (store = before /\ trail = <<"rollback", "close">>)
                  /\ args.mode = "fetch" => trail = <<"commit", "close">>)
    /\ [][(entry = "zappos" /\ outcome /= "none" /\ pc \notin {"finally", "returned"})
            => /\ pc' = "finally"
               /\ status' = 1
               /\ IF args.mode = "fetch"
                  THEN store' = txn
                  ELSE store' = store /\ txn' = store]_vars

\* A fetch run that ended with an exception after it had inserted a product:
\* the product is stored.
C40_Witness ==
    /\ entry = "zappos"
    /\ args.mode = "fetch"
    /\ pc = "returned"
    /\ outcome /= "none"
    /\ status = 1
    /\ conn = "closed"
    /\ Len(store["products"]) > Len(before["products"])

====
